---- MODULE Spec2Model ----
(***************************************************************************)
(* Model of plugins.v2/vpsmonitor/__init__.py (class VPSMonitor): the      *)
(* periodic throttle check _run_check with its token refresh, multi-       *)
(* account aggregation, single-account REST/SOAP fallback and notifier;   *)
(* init_plugin, the device-flow handlers and the account handlers.         *)
(*                                                                         *)
(* One action is one request to the outside world (provider, OAuth         *)
(* endpoint, SOAP service, notifier) together with the code that runs      *)
(* from its answer up to the next request.  Answers of the outside world   *)
(* are drawn with \E from small sets.                                      *)
(***************************************************************************)
EXTENDS Integers, Sequences, FiniteSets, TLC

(* ---------------------------- bounds ----------------------------------- *)
MaxAccounts == 3      \* entries of self._accounts
PairAccounts == 2     \* accounts of the configurations of SpecMulti and SpecApi
MaxServers  == 2      \* servers / vServers in one provider answer
MaxIssued   == 2      \* token pairs the provider issues in one behaviour
MaxFaults   == 2      \* answers other than plain success in one behaviour
SoloAccounts == 1     \* accounts of the configurations of Spec
MultiFaults  == 1     \* answers other than plain success in a behaviour of SpecMulti
T0          == 1000   \* wall clock (epoch seconds) at the first state
MaxTicks    == 1      \* clock advances in one behaviour
MaxCalls    == 3      \* API calls in one behaviour of SpecApi
DeviceLifetime == 30  \* expires_in of the device code the provider hands out

(* ------------------------ values of Python ----------------------------- *)
None      == -1       \* Python None / missing dict key
Malformed == -2       \* a non-numeric string where a number is expected
Truthy(v) == v /= None /\ v /= 0     \* Python truthiness of None, 0, "", str

(* program constants *)
RefreshMargin    == 60     \* "now >= int(exp) - 60"
DefaultExpiresIn == 300    \* "data.get('expires_in') or 300"
TickStep         == 50     \* seconds added by one clock advance

Global == 0                       \* slot of the top-level self._rest_* fields
Refs   == 1 .. MaxAccounts        \* identities of the account dicts
Slots  == {Global} \cup Refs

VARIABLES
  self,           \* scalar fields of the plugin object (self._xxx)
  accounts,       \* self._accounts: sequence of references to account dicts
  heap,           \* the account dicts themselves, by reference
  saved,          \* what update_config last persisted
  now,            \* time.time()
  ticks,          \* clock advances so far
  issued,         \* token pairs issued by the provider so far
  budget,         \* answers other than plain success the environment may still give
  pc,             \* position of _run_check
  try_accounts,   \* local try_accounts (references)
  idx,            \* position of "for acc in try_accounts"
  headers,        \* token in headers['Authorization']
  servers,        \* local servers / vps_list
  sidx,           \* position of "for sv in servers" / "for vname in vps_list"
  throttled_list, \* local throttled_list / throttled_rest / throttled
  throttled_map,  \* dict name -> list, as a sequence of [name, lst] in insertion order
  ok_counts,      \* list of (name, count)
  warns,          \* list of warning lines
  rfret,          \* call site the running refresh returns to
  notices,        \* calls of self._notify in this run
  h,              \* per slot: requests sent in this run
  pre,            \* per slot: the locals now/at/rt/exp read at the readiness test
  result,         \* per account dict: what this run computed for it
  lastrf,         \* the last refresh call: slot, tokens before, return value
  lastif,         \* the interface answer this step received, if it received one
  flow,           \* the device flow the caller started: its expiry and target
  calls,          \* API calls made so far
  lastcall,       \* the last API call: request, provider answer, returned code
  rich,           \* whether the provider's payloads take their less common forms too
  world,          \* what the provider holds, when that is fixed for the behaviour
  inflight,       \* the refresh exchange a run has sent and not yet received
  prev,           \* what the previous run against a fixed provider reported
  loaded          \* the call of init_plugin: its state, its onlyonce, the runs it made

vars == << self, accounts, heap, saved, now, ticks, issued, budget, pc, try_accounts, idx,
           headers, servers, sidx, throttled_list, throttled_map, ok_counts, warns,
           rfret, notices, h, pre, result, lastrf, lastif, flow, calls, lastcall,
           rich, world, inflight, prev, loaded >>

(* the variables of the API handlers and of the environment, which _run_check
   never touches *)
apiVars == << flow, calls, lastcall, rich, world, inflight, prev, loaded >>

(* ------------------------------ tokens --------------------------------- *)
Tokens(r) == [at |-> r.rest_access_token, rt |-> r.rest_refresh_token,
              exp |-> r.rest_token_expires_at]

WithTokens(r, t) == [r EXCEPT !.rest_access_token = t.at,
                              !.rest_refresh_token = t.rt,
                              !.rest_token_expires_at = t.exp]

SlotTokens(s) == IF s = Global THEN Tokens(self) ELSE Tokens(heap[s])

(* what update_config writes: every scalar field and the account dicts by value *)
Snapshot(slf, accs, hp) ==
  [self |-> slf, accounts |-> [i \in DOMAIN accs |-> hp[accs[i]]]]

(* ----------------------- the refresh exchange -------------------------- *)
(* Answers of the token endpoint to grant_type=refresh_token.  status 0 is a
   network error (requests.post raises); body "bad" is a 200 whose body is
   not a JSON object.  A 200 carries a fresh pair numbered by `issued`. *)
FreshAT(n) == 2 * n + 3
FreshRT(n) == 2 * n + 4

(* a provider held fixed answers every refresh with a grant, and every
   request by its stored data, or by 401 when the token is the stale one *)
RefreshResponses(n) ==
  (IF world.fixed THEN {}
   ELSE { [status |-> st, body |-> "none", access_token |-> None, refresh_token |-> None,
           expires_in |-> None] : st \in {0, 400} })
  \cup
  IF n >= MaxIssued THEN {}
  ELSE IF world.fixed
    THEN
  { [status |-> 200, body |-> "json", access_token |-> FreshAT(n),
     refresh_token |-> FreshRT(n), expires_in |-> 2 * DefaultExpiresIn],
    [status |-> 200, body |-> "json", access_token |-> FreshAT(n),
     refresh_token |-> None, expires_in |-> None] }
  ELSE
  { [status |-> 200, body |-> "bad", access_token |-> None, refresh_token |-> None,
     expires_in |-> None],
    \* a rotated pair with its lifetime
    [status |-> 200, body |-> "json", access_token |-> FreshAT(n),
     refresh_token |-> FreshRT(n), expires_in |-> 2 * DefaultExpiresIn],
    \* an access token alone
    [status |-> 200, body |-> "json", access_token |-> FreshAT(n),
     refresh_token |-> None, expires_in |-> None],
    \* no access token in the body, and a lifetime of 0
    [status |-> 200, body |-> "json", access_token |-> None,
     refresh_token |-> FreshRT(n), expires_in |-> 0],
    \* a lifetime that is no number
    [status |-> 200, body |-> "json", access_token |-> FreshAT(n),
     refresh_token |-> FreshRT(n), expires_in |-> Malformed] }

(* an answer of the token endpoint, or a persistence, that is not plain success *)
RefreshFault(resp, persistOk) ==
  \/ resp.status /= 200 \/ resp.body /= "json"
  \/ resp.access_token = None \/ resp.expires_in = Malformed
  \/ ~persistOk

NoAnswer == [granted |-> FALSE, access_token |-> None, refresh_token |-> None,
             expires_in |-> None]

(* what a 200 answer with a JSON object grants, as the provider sent it *)
Answer(resp) ==
  IF resp.status = 200 /\ resp.body = "json"
    THEN [granted |-> TRUE, access_token |-> resp.access_token,
          refresh_token |-> resp.refresh_token, expires_in |-> resp.expires_in]
    ELSE NoAnswer

(* mutant: no default lifetime *)
LifetimeAsGiven(expires_in) == expires_in

(* expires_in = data.get('expires_in') or 300: lines 516, 451 and 961 *)
Lifetime(expires_in) == IF Truthy(expires_in) THEN expires_in ELSE DefaultExpiresIn

(* _refresh_for_account / _refresh_access_token on the tokens t of one slot,
   given the endpoint's answer, the clock and whether update_config succeeds.
     sent      a POST was issued
     ok        the return value
     t         the slot's tokens in memory afterwards
     persisted update_config ran to completion *)
Refresh(t, resp, clock, persistOk) ==
  IF ~Truthy(t.rt)                                     \* if not rt: return False
    THEN [sent |-> FALSE, ok |-> FALSE, t |-> t, persisted |-> FALSE]
  ELSE IF resp.status = 0                              \* requests.post raises
    THEN [sent |-> TRUE, ok |-> FALSE, t |-> t, persisted |-> FALSE]
  ELSE IF resp.status /= 200                           \* return False
    THEN [sent |-> TRUE, ok |-> FALSE, t |-> t, persisted |-> FALSE]
  ELSE IF resp.body /= "json"                          \* resp.json() / data.get raises
    THEN [sent |-> TRUE, ok |-> FALSE, t |-> t, persisted |-> FALSE]
  ELSE
    LET at1 == resp.access_token                       \* data.get('access_token')
        rt1 == IF Truthy(resp.refresh_token)           \* data.get('refresh_token') or rt
                 THEN resp.refresh_token ELSE t.rt
        ein == Lifetime(resp.expires_in)               \* data.get('expires_in') or 300
    IN IF ein = Malformed                              \* int(expires_in) raises
         THEN [sent |-> TRUE, ok |-> FALSE, persisted |-> FALSE,
               t |-> [at |-> at1, rt |-> rt1, exp |-> t.exp]]
       ELSE IF ~persistOk                              \* self.__update_config() raises
         THEN [sent |-> TRUE, ok |-> FALSE, persisted |-> FALSE,
               t |-> [at |-> at1, rt |-> rt1, exp |-> clock + ein]]
       ELSE [sent |-> TRUE, ok |-> TRUE, persisted |-> TRUE,
             t |-> [at |-> at1, rt |-> rt1, exp |-> clock + ein]]

(* mutant: the "if not at" test left out *)
AuthorizedAlways(at) == TRUE

(* "if not at": lines 545 and 723 *)
Authorized(at) == Truthy(at)

(* mutant: the 401 test in a loop instead of an if *)
RetryOn401Always(attempt, status) == status = 401

(* "r.status_code == 401 and _refresh_for_account(acc)" stands in an if, on
   the first attempt of a request only: lines 552 and 576 *)
RetryOn401(attempt, status) == attempt \in {"m_servers", "m_iface"} /\ status = 401

(* mutant: no return after the dependency error *)
AfterDepErrorGoOn == "single"

(* the return of line 472, after the dependency error is notified *)
AfterDepError == "done"

(* mutant: no return after the aggregated notification *)
AfterSummaryGoOn == "single"

(* the return of line 698, after the aggregated notification *)
AfterSummary == "done"

(* mutant: the 60 seconds of margin left out *)
ExpiryTestNoMargin(exp, clock) ==
  IF ~Truthy(exp) THEN "no"
  ELSE IF exp = Malformed THEN "raise"
  ELSE IF clock >= exp THEN "yes"
  ELSE "no"

(* "exp and now >= int(exp) - 60": "raise" when int(exp) raises *)
ExpiryTest(exp, clock) ==
  IF ~Truthy(exp) THEN "no"
  ELSE IF exp = Malformed THEN "raise"
  ELSE IF clock >= exp - RefreshMargin THEN "yes"
  ELSE "no"

(* the readiness test of lines 536-543 / 718-722 *)
Readiness(t, clock) ==
  IF ~Truthy(t.at) /\ Truthy(t.rt) THEN "refresh"
  ELSE LET e == ExpiryTest(t.exp, clock)
       IN IF e = "yes" THEN "refresh" ELSE IF e = "raise" THEN "raise" ELSE "ready"

(* ----------------------------- provider -------------------------------- *)
Unknown == [v6 |-> FALSE, a |-> 0]                 \* the sentinel address
Addr(k) == [v6 |-> FALSE, a |-> k]
V6(k)   == [v6 |-> TRUE, a |-> k]                  \* an address with ':' in it

(* the address lists of the server at position k: one IPv4 address; in the
   less common forms IPv6 before IPv4 for the first server, and none or IPv6
   alone for a later one *)
IpsAt(k) ==
  IF ~rich THEN { << Addr(k) >> }
  ELSE IF k = 1 THEN { << V6(1), Addr(1) >> }
  ELSE { << >>, << V6(k) >> }

(* the server at position k of an answer, with and without an id *)
ServerAt(k) == { [id |-> k, vServerName |-> None, ips |-> ips] : ips \in IpsAt(k) }
               \cup { [id |-> None, vServerName |-> None, ips |-> << >>] }

ServerLists ==
  UNION { { l \in [1 .. n -> UNION { ServerAt(k) : k \in 1 .. MaxServers }] :
              \A k \in 1 .. n : l[k] \in ServerAt(k) } : n \in 0 .. MaxServers }

(* answers to GET /api/v1/servers: status 0 is a network error; shape is the
   JSON shape of a 200 body: a list, {"servers": list} or anything else *)
Stale(token) == world.stale /\ token = 1

ServersResponses ==
  IF world.fixed
    THEN IF Stale(headers)
           THEN { [status |-> 401, shape |-> "none", items |-> << >>] }
           ELSE { [status |-> 200, shape |-> "list", items |-> world.servers] }
  ELSE
  { [status |-> st, shape |-> "none", items |-> << >>] : st \in {0, 401, 500} }
  \cup { [status |-> 200, shape |-> "other", items |-> << >>] }
  \cup [ status : {200}, shape : {"list", "wrapped"}, items : ServerLists ]

(* an interface: trafficThrottled is "True", "False" or "absent"; ipv4IP is
   the list, << >> when the key is missing *)
IfaceLists ==
  { << >>,
    << [trafficThrottled |-> "absent", ipv4IP |-> << >>] >>,
    << [trafficThrottled |-> "False",  ipv4IP |-> << Addr(9) >>] >>,
    << [trafficThrottled |-> "False",  ipv4IP |-> << >>],
       [trafficThrottled |-> "True",   ipv4IP |-> << Addr(9) >>] >> }
  \cup
  \* less common: the throttled interface carries no address of its own
  IF rich THEN { << [trafficThrottled |-> "True", ipv4IP |-> << >>] >> } ELSE {}

(* answers to GET /api/v1/servers/{sid}/interfaces *)
IfaceResponses ==
  IF world.fixed
    THEN IF Stale(headers)
           THEN { [status |-> 401, shape |-> "none", items |-> << >>] }
           ELSE { [status |-> 200, shape |-> "list",
                   items |-> world.ifaces[servers[sidx].id]] }
  ELSE
  { [status |-> st, shape |-> "none", items |-> << >>] : st \in {0, 401, 500} }
  \cup { [status |-> 200, shape |-> "other", items |-> << >>] }
  \cup [ status : {200}, shape : {"list", "wrapped"}, items : IfaceLists ]

(* answers other than plain success: an error status, a body of another
   shape, a server without an id *)
ServersFault(resp) ==
  \/ resp.status /= 200 \/ resp.shape = "other"
  \/ \E k \in DOMAIN resp.items : ~Truthy(resp.items[k].id)
IfaceFault(resp) == resp.status /= 200 \/ resp.shape = "other"

(* SOAP: Client(wsdl=...) then getVServers: "wsdl" and "error" are the two
   calls raising, otherwise the list of vServer names *)
SoapListResponses ==
  IF world.fixed
    THEN { [kind |-> "ok", vps |-> [i \in DOMAIN world.servers |-> i]] }
  ELSE
  { [kind |-> k, vps |-> << >>] : k \in {"wsdl", "error"} }
  \cup { [kind |-> "ok", vps |-> [i \in 1 .. n |-> i]] : n \in 0 .. MaxServers }
SoapListFault(resp) == resp.kind /= "ok"

(* SOAP: getVServerInformation raising, or the info object *)
SoapInfoResponses ==
  IF world.fixed
    THEN { [kind |-> "ok", ips |-> << Addr(7) >>,
            serverInterfaces |-> world.ifaces[servers[sidx]]] }
  ELSE
  { [kind |-> "error", ips |-> << >>, serverInterfaces |-> << >>] }
  \cup [ kind : {"ok"}, ips : { << Addr(7) >> }, serverInterfaces : IfaceLists ]
SoapInfoFault(resp) == resp.kind /= "ok"

(* lines 661-670: primary_ip = ips[0] if ips else unknown *)
SoapEntry(vname, info) ==
  [name |-> vname, ip |-> IF Len(info.ips) > 0 THEN info.ips[1] ELSE Unknown]

(* lines 556-560: unwrap {"servers": ...}; "raise" unless a list results *)
UnwrapServers(resp) ==
  IF resp.shape \in {"list", "wrapped"} THEN [ok |-> TRUE, items |-> resp.items]
  ELSE [ok |-> FALSE, items |-> << >>]

(* lines 580-584: unwrap {"interfaces": ...}; any other shape becomes [] *)
UnwrapInterfaces(resp) ==
  IF resp.shape \in {"list", "wrapped"} THEN resp.items ELSE << >>

(* sid = sv.get('id') or ... or sv.get('vServerName') *)
Sid(sv) == IF Truthy(sv.id) THEN sv.id ELSE sv.vServerName
(* sname = sv.get('vServerName') or sv.get('hostname') or sid *)
Sname(sv) == IF Truthy(sv.vServerName) THEN sv.vServerName ELSE Sid(sv)

(* mutant: the first address whatever its family *)
first_address(sv) == IF Len(sv.ips) > 0 THEN sv.ips[1] ELSE Unknown

(* first_ipv4(v), lines 562-567 *)
first_ipv4(sv) ==
  LET ips == sv.ips
      v4  == { i \in DOMAIN ips : ~ips[i].v6 }
  IN IF v4 /= {} THEN ips[CHOOSE i \in v4 : \A j \in v4 : i <= j]
     ELSE IF Len(ips) > 0 THEN ips[1] ELSE Unknown

(* mutant: only the first interface is looked at *)
FirstThrottledHead(ifs) ==
  IF Len(ifs) > 0 /\ ifs[1].trafficThrottled = "True" THEN 1 ELSE 0

(* lines 585-595: the first interface with trafficThrottled is True decides *)
FirstThrottled(ifs) ==
  LET T == { i \in DOMAIN ifs : ifs[i].trafficThrottled = "True" }
  IN IF T = {} THEN 0 ELSE CHOOSE i \in T : \A j \in T : i <= j

ThrottledEntry(sv, ifs) ==
  LET i == FirstThrottled(ifs)
      ipv4s == IF i = 0 THEN << >> ELSE ifs[i].ipv4IP      \* iface.get('ipv4IP') or []
  IN [name |-> Sname(sv),
      ip   |-> IF Len(ipv4s) > 0 THEN ipv4s[1] ELSE first_ipv4(sv)]

(* index of the next server of the loop that has a sid, Len+1 when none *)
NextSid(svs, from) ==
  LET S == { j \in from .. Len(svs) : Truthy(Sid(svs[j])) }
  IN IF S = {} THEN Len(svs) + 1 ELSE CHOOSE j \in S : \A k \in S : j <= k

(* the servers after position i that the loop would still query *)
Unqueried(svs, i) == Cardinality({ j \in (i + 1) .. Len(svs) : Truthy(Sid(svs[j])) })

(* throttled_map[name] = lst on a dict kept in insertion order *)
MapPut(m, name, lst) ==
  IF \E i \in DOMAIN m : m[i].name = name
    THEN [i \in DOMAIN m |-> IF m[i].name = name THEN [name |-> name, lst |-> lst] ELSE m[i]]
    ELSE Append(m, [name |-> name, lst |-> lst])

(* name = str(acc.get('name') or acc.get('id') or '未命名账户') *)
DisplayName(acc) ==
  IF acc.name /= "" THEN acc.name
  ELSE IF Truthy(acc.id) THEN ToString(acc.id) ELSE "unnamed"

(* ------------------------------- Init ---------------------------------- *)
(* stored expiries: missing, 0, within the margin, beyond it, no number *)
ExpValues == {None, 0, T0 + 30, T0 + 100, Malformed}

RestTokens == [at : {None, 1}, rt : {None, 2}, exp : ExpValues]
NoTokens   == [at |-> None, rt |-> None, exp |-> None]
(* the tokens of a slot that is authorized and not yet due for a refresh *)
Authorized1 == [at |-> 1, rt |-> 2, exp |-> T0 + 100]

Account(i, nm, en, mode, t, cred) ==
  [id |-> i, name |-> nm, enabled |-> en, api_mode |-> mode,
   rest_access_token |-> t.at, rest_refresh_token |-> t.rt,
   rest_token_expires_at |-> t.exp, customer |-> cred, password |-> cred]

(* the first account is named "A"; a later one has the same name or another *)
NamesAt(i) == IF i = 1 THEN {"A"} ELSE {"A", "B"}

Disabled(i) == Account(i, "A", FALSE, "rest", [at |-> 1, rt |-> 2, exp |-> T0 + 30], None)

(* the dicts account i can start as: REST with any stored tokens, SOAP with
   or without credentials, or disabled *)
AccountsAt(i) ==
  { Account(i, nm, TRUE, "rest", t, None) : nm \in NamesAt(i), t \in RestTokens }
  \cup { Account(i, nm, TRUE, "soap", NoTokens, c) : nm \in NamesAt(i), c \in {None, 1} }
  \cup { Disabled(i) }

(* fewer of them, for the configurations with several accounts: REST
   authorized, due for a refresh, unauthorized and with a malformed expiry *)
FewTokens == { [at |-> 1, rt |-> 2, exp |-> T0 + 100], [at |-> 1, rt |-> 2, exp |-> T0 + 30],
               NoTokens, [at |-> 1, rt |-> 2, exp |-> Malformed] }

FewAccountsAt(i) ==
  { Account(i, nm, TRUE, "rest", t, None) : nm \in NamesAt(i), t \in FewTokens }
  \cup { Account(i, nm, TRUE, "soap", NoTokens, c) : nm \in NamesAt(i), c \in {None, 1} }
  \cup { Disabled(i) }

Blank(i) == Account(i, "", FALSE, "rest", NoTokens, None)

SelfRest(n, t) ==
  [notify_all_ok |-> n, api_mode |-> "rest", customer |-> None, password |-> None,
   rest_access_token |-> t.at, rest_refresh_token |-> t.rt,
   rest_token_expires_at |-> t.exp, onlyonce |-> FALSE]

SelfSoap(n, c) ==
  [notify_all_ok |-> n, api_mode |-> "soap", customer |-> c, password |-> c,
   rest_access_token |-> None, rest_refresh_token |-> None,
   rest_token_expires_at |-> None, onlyonce |-> FALSE]

(* the top-level fields: any stored tokens or credentials when there is no
   account; with accounts, authorized REST, unauthorized REST or SOAP *)
SelfValues(n) ==
  IF n = 0
    THEN { SelfRest(b, t) : b \in BOOLEAN, t \in RestTokens }
         \cup { SelfSoap(b, c) : b \in BOOLEAN, c \in {None, 1} }
    ELSE { SelfRest(b, t) : b \in BOOLEAN,
                            t \in { [at |-> 1, rt |-> 2, exp |-> T0 + 100], NoTokens } }
         \cup { SelfSoap(b, 1) : b \in BOOLEAN }

NoCount == [refreshes |-> 0, status |-> 0, retries |-> 0, r401 |-> 0, determined |-> 0]
NoPre   == [seen |-> FALSE, now |-> 0, at |-> None, rt |-> None, exp |-> None]
NoResult == [state |-> "none", lst |-> << >>, total |-> 0, lost |-> << >>, skipped |-> 0]
NoRefresh == [slot |-> Global, before |-> NoTokens, after |-> NoTokens,
              sent |-> FALSE, ok |-> FALSE, n |-> 0, clock |-> 0, answer |-> NoAnswer]
NoIface == [seen |-> FALSE, path |-> "none", accepted |-> FALSE, listed |-> FALSE,
            flagged |-> FALSE, ipv4 |-> << >>, ips |-> << >>]
NoFlow == [started |-> FALSE, expires_at |-> 0, target |-> None]
(* a request of account_update: the keys it has and their values; "" is a
   name or api_mode that is None or empty *)
NoReq  == [id |-> None, has |-> {}, name |-> "", enabled |-> FALSE, api_mode |-> "",
           customer |-> None, password |-> None]
NoCall == [op |-> "none", target |-> None, answer |-> "none", code |-> 0, posts |-> 0,
           clock |-> 0, deadline |-> 0, req |-> NoReq]

(* the provider when nothing holds it fixed: any answer to any request *)
AnyWorld == [fixed |-> FALSE, stale |-> FALSE, servers |-> << >>, ifaces |-> << >>]
NoFlight == [open |-> FALSE, slot |-> Global, rt |-> None]
NoPrev   == [ran |-> FALSE, imports |-> FALSE, notices |-> << >>, lists |-> << >>]
(* init_plugin has returned and asked for no immediate run *)
AfterLoad == [state |-> "returned", asked |-> FALSE, runs |-> 0]

(* the state in which no run is in progress *)
Idle ==
  /\ pc = "idle"
  /\ try_accounts = << >> /\ idx = 1 /\ headers = None
  /\ servers = << >> /\ sidx = 1 /\ throttled_list = << >>
  /\ throttled_map = << >> /\ ok_counts = << >> /\ warns = << >>
  /\ rfret = "none" /\ notices = << >>
  /\ h = [s \in Slots |-> NoCount]
  /\ pre = [s \in Slots |-> NoPre]
  /\ result = [r \in Refs |-> NoResult]
  /\ lastrf = NoRefresh
  /\ lastif = NoIface

StartDicts(i, few) == IF few THEN FewAccountsAt(i) ELSE AccountsAt(i)

(* the plugin after init_plugin: memory and persisted configuration agree *)
Loaded(n, few) ==
  /\ accounts = [i \in 1 .. n |-> i]
  /\ \E f \in [1 .. n -> UNION { StartDicts(i, few) : i \in 1 .. n }] :
       /\ \A i \in 1 .. n : f[i] \in StartDicts(i, few)
       /\ heap = [i \in Refs |-> IF i <= n THEN f[i] ELSE Blank(i)]
  /\ saved = Snapshot(self, accounts, heap)
  /\ now = T0 /\ ticks = 0 /\ issued = 0
  /\ flow = NoFlow /\ calls = 0 /\ lastcall = NoCall
  /\ world = AnyWorld /\ inflight = NoFlight /\ prev = NoPrev /\ loaded = AfterLoad
  /\ Idle

(* no account or a few, any stored tokens *)
Init ==
  \E n \in 0 .. SoloAccounts :
    /\ self \in SelfValues(n)
    /\ Loaded(n, FALSE)
    /\ budget = MaxFaults
    /\ rich = FALSE

(* several accounts *)
InitMulti ==
  \E n \in 2 .. PairAccounts :
    /\ self \in { SelfRest(b, [at |-> 1, rt |-> 2, exp |-> T0 + 100]) : b \in BOOLEAN }
                 \cup { SelfSoap(TRUE, 1) }
    /\ Loaded(n, TRUE)
    /\ budget = MultiFaults
    /\ rich = FALSE

(* the configurations in which the payloads take their less common forms:
   no account or one, authorized REST or SOAP with credentials *)
InitDetail ==
  \E n \in 0 .. SoloAccounts :
    /\ self \in { SelfRest(b, [at |-> 1, rt |-> 2, exp |-> T0 + 100]) : b \in BOOLEAN }
                 \cup { SelfSoap(b, 1) : b \in BOOLEAN }
    /\ accounts = [i \in 1 .. n |-> i]
    /\ \E mode \in {"rest", "soap"} :
         heap = [i \in Refs |->
                   IF i > n THEN Blank(i)
                   ELSE IF mode = "rest"
                     THEN Account(i, "A", TRUE, "rest", [at |-> 1, rt |-> 2, exp |-> T0 + 100], None)
                     ELSE Account(i, "A", TRUE, "soap", NoTokens, 1)]
    /\ saved = Snapshot(self, accounts, heap)
    /\ now = T0 /\ ticks = 0 /\ issued = 0
    /\ flow = NoFlow /\ calls = 0 /\ lastcall = NoCall
    /\ world = AnyWorld /\ inflight = NoFlight /\ prev = NoPrev /\ loaded = AfterLoad
    /\ Idle
    /\ budget = MultiFaults
    /\ rich = TRUE

(* ------------------------- pieces of actions --------------------------- *)
(* the answer to an interface request as it arrived, with the server's own
   address list *)
(* what a payload says: some interface has trafficThrottled true, and the
   addresses of the first such interface *)
Flagged(ifs) == \E i \in DOMAIN ifs : ifs[i].trafficThrottled = "True"
FlaggedAddrs(ifs) ==
  IF Flagged(ifs)
    THEN ifs[CHOOSE i \in DOMAIN ifs : /\ ifs[i].trafficThrottled = "True"
                                        /\ \A j \in 1 .. (i - 1) :
                                             ifs[j].trafficThrottled /= "True"].ipv4IP
    ELSE << >>

RestIface(resp, sv) ==
  [seen |-> TRUE, path |-> "rest", accepted |-> resp.status = 200,
   listed |-> resp.shape \in {"list", "wrapped"},
   flagged |-> Flagged(resp.items), ipv4 |-> FlaggedAddrs(resp.items), ips |-> sv.ips]

SoapIface(resp) ==
  [seen |-> TRUE, path |-> "soap", accepted |-> resp.kind = "ok",
   listed |-> resp.kind = "ok",
   flagged |-> Flagged(resp.serverInterfaces),
   ipv4 |-> FlaggedAddrs(resp.serverInterfaces), ips |-> resp.ips]

Cur  == try_accounts[idx]            \* the dict "acc" of the running iteration
Acc  == heap[Cur]
Name == DisplayName(Acc)

(* history: an answer from which is_throttled was computed (lines 585-593,
   664-668) determines the status of one more resource *)
Determined(answered) == IF answered THEN 1 ELSE 0

(* the environment answers with a fault only while its budget lasts *)
Charge(fault) ==
  /\ fault => budget > 0
  /\ budget' = budget - (IF fault THEN 1 ELSE 0)

(* mutant: no try around send_event *)
NotifyOutcomeUncaught(delivered) == IF delivered THEN "returned" ELSE "raised"

(* _notify, lines 1093-1100: "except Exception: logger.error(...)", so the
   call returns whether send_event raised or not *)
NotifyOutcome(delivered) == "returned"

Notice(title, groups, counts, ws, success, delivered) ==
  [title |-> title, groups |-> groups, counts |-> counts, warns |-> ws,
   success |-> success, delivered |-> delivered, outcome |-> NotifyOutcome(delivered)]

(* self._notify, lines 1092-1100: one send_event, whose failure is only logged *)
Notify(title, groups, counts, ws, success) ==
  \E delivered \in BOOLEAN :
    notices' = Append(notices, Notice(title, groups, counts, ws, success, delivered))

(* warns.append(...); continue.  `lost` are the entries of the account's
   throttled_list that the exception drops, `skipped` the servers with an id
   that are never queried *)
WarnDropping(kind, lost, skipped) ==
  /\ warns' = Append(warns, [name |-> Name, kind |-> kind])
  /\ result' = [result EXCEPT ![Cur] = [state |-> "warned", lst |-> << >>, total |-> 0,
                                        lost |-> lost, skipped |-> skipped]]
  /\ idx' = idx + 1
  /\ pc' = "m_loop"

WarnAndContinue(kind) == WarnDropping(kind, << >>, 0)

(* throttled_map[name] = lst; ok_counts.append((name, total)); next account *)
RecordAndContinue(lst, total) ==
  /\ throttled_map' = MapPut(throttled_map, Name, lst)
  /\ ok_counts' = Append(ok_counts, [name |-> Name, cnt |-> total])
  /\ result' = [result EXCEPT ![Cur] = [state |-> "checked", lst |-> lst, total |-> total,
                                        lost |-> << >>, skipped |-> 0]]
  /\ idx' = idx + 1
  /\ pc' = "m_loop"

(* the notification that ends the single-account REST and SOAP paths,
   lines 771-775 and 900-908 *)
SingleSummary(lst, total) ==
  IF lst /= << >>
    THEN Notify("alert_single", << [name |-> "", lst |-> lst] >>, << >>, << >>, FALSE)
  ELSE IF self.notify_all_ok
    THEN Notify("ok_single", << >>, << [name |-> "", cnt |-> total] >>, << >>, TRUE)
  ELSE UNCHANGED notices

(* --------------------------- _run_check -------------------------------- *)
(* lines 460-481: the dependency imports, then the choice of the path *)
RunStart ==
  /\ pc = "idle" /\ loaded.state /= "called"
  /\ loaded' = IF loaded.state = "running" THEN [loaded EXCEPT !.runs = @ + 1] ELSE loaded
  /\ \E deps \in BOOLEAN :
       IF ~deps
         THEN /\ Notify("dep_error", << >>, << >>, << >>, FALSE)
              /\ pc' = AfterDepError
              /\ UNCHANGED try_accounts
         ELSE /\ try_accounts' = SelectSeq(accounts, LAMBDA r : heap[r].enabled)
              /\ pc' = IF try_accounts' /= << >> THEN "m_loop" ELSE "single"
              /\ UNCHANGED notices
  /\ UNCHANGED << self, accounts, heap, saved, now, ticks, issued, budget, idx, headers,
                  servers, sidx, throttled_list, throttled_map, ok_counts, warns,
                  rfret, h, pre, result, lastrf >>
  /\ UNCHANGED << flow, calls, lastcall, rich, world, inflight, prev >>
  /\ lastif' = NoIface

(* lines 524-547 and 602-608: head of one iteration of "for acc in try_accounts" *)
MultiAccount ==
  /\ pc = "m_loop" /\ idx <= Len(try_accounts)
  /\ IF Acc.api_mode = "rest"
       THEN LET t == Tokens(Acc)
                rd == Readiness(t, now)
            IN /\ pre' = [pre EXCEPT ![Cur] = [seen |-> TRUE, now |-> now, at |-> t.at,
                                               rt |-> t.rt, exp |-> t.exp]]
               /\ CASE rd = "refresh" ->
                         /\ pc' = "refresh_acc" /\ rfret' = "m_ready"
                         /\ UNCHANGED << idx, headers, warns, result >>
                    [] rd = "raise" ->              \* int(exp) raises: caught at line 699
                         /\ pc' = "single"
                         /\ result' = [result EXCEPT ![Cur].state = "raised"]
                         /\ UNCHANGED << idx, headers, warns, rfret >>
                    [] rd = "ready" /\ ~Authorized(t.at) ->
                         /\ WarnAndContinue("unauthorized")
                         /\ UNCHANGED << headers, rfret >>
                    [] rd = "ready" /\ Authorized(t.at) ->
                         /\ headers' = t.at /\ pc' = "m_servers"
                         /\ UNCHANGED << idx, warns, rfret, result >>
       ELSE /\ IF ~Truthy(Acc.customer) \/ ~Truthy(Acc.password)
                 THEN WarnAndContinue("soap_no_credentials")
                 ELSE /\ pc' = "m_soap_list"
                      /\ UNCHANGED << idx, warns, result >>
            /\ UNCHANGED << pre, headers, rfret >>
  /\ UNCHANGED << self, accounts, heap, saved, now, ticks, issued, budget, try_accounts,
                  servers, sidx, throttled_list, throttled_map, ok_counts,
                  notices, h, lastrf >>
  /\ UNCHANGED apiVars
  /\ lastif' = NoIface

(* lines 510-522 of _refresh_for_account, entered with the tokens t (the
   local rt and the dict's other fields), with the code after each of its
   call sites: 537-547, 552-555 and 576-579.  The dict is written only from
   a 200 answer with a JSON object (lines 514-517). *)
RefreshAccount(t) ==
  /\ \E resp \in RefreshResponses(issued), persistOk \in BOOLEAN :
       LET r == Refresh(t, resp, now, persistOk)
           heap1 == IF r.sent /\ Answer(resp).granted
                      THEN [heap EXCEPT ![Cur] = WithTokens(@, r.t)] ELSE heap
           at1 == heap1[Cur].rest_access_token      \* at = acc.get('rest_access_token')
           on401 == rfret \in {"m_servers_retry", "m_iface_retry"}
       IN /\ Charge(r.sent /\ RefreshFault(resp, persistOk))
          /\ ~r.sent => (resp.status = 400 /\ persistOk)   \* no exchange: the answer is moot
          /\ heap' = heap1
          /\ saved' = IF r.persisted THEN Snapshot(self, accounts, heap1) ELSE saved
          /\ issued' = IF r.sent /\ resp.status = 200 THEN issued + 1 ELSE issued
          /\ h' = [h EXCEPT ![Cur].refreshes = @ + (IF r.sent THEN 1 ELSE 0),
                            ![Cur].r401 = @ + (IF r.sent /\ on401 THEN 1 ELSE 0)]
          /\ lastrf' = [slot |-> Cur, before |-> t, after |-> Tokens(heap1[Cur]),
                        sent |-> r.sent, ok |-> r.ok, n |-> lastrf.n + 1, clock |-> now,
                        answer |-> IF r.sent THEN Answer(resp) ELSE NoAnswer]
          /\ IF rfret = "m_ready"
               THEN IF ~Authorized(at1)             \* if not at: warn, continue
                      THEN WarnAndContinue("unauthorized") /\ UNCHANGED headers
                      ELSE /\ headers' = at1 /\ pc' = "m_servers"
                           /\ UNCHANGED << idx, warns, result >>
               ELSE IF r.ok                         \* 401 and refreshed: retry
                      THEN /\ headers' = at1 /\ pc' = rfret
                           /\ UNCHANGED << idx, warns, result >>
                      ELSE                          \* raise_for_status() on the 401
                           /\ IF rfret = "m_iface_retry"
                                THEN WarnDropping("rest_failed", throttled_list,
                                                  Unqueried(servers, sidx))
                                ELSE WarnAndContinue("rest_failed")
                           /\ UNCHANGED headers
  /\ UNCHANGED << self, accounts, now, ticks, try_accounts, servers, sidx,
                  throttled_list, throttled_map, ok_counts, rfret, notices, pre >>
  /\ lastif' = NoIface

(* lines 495-522: _refresh_for_account(acc) with nothing running beside it *)
RefreshForAccount ==
  /\ pc = "refresh_acc" /\ ~inflight.open
  /\ RefreshAccount(Tokens(Acc))
  /\ UNCHANGED apiVars

(* lines 550-560 (and the retry of 553-554), then the loop head of 570-574 *)
MultiGetServers ==
  /\ pc \in {"m_servers", "m_servers_retry"}
  /\ h' = [h EXCEPT ![Cur].status = @ + 1,
                    ![Cur].retries = @ + (IF pc = "m_servers_retry" THEN 1 ELSE 0)]
  /\ \E resp \in ServersResponses :
       /\ Charge(ServersFault(resp))
       /\ IF RetryOn401(pc, resp.status)
            THEN /\ pc' = "refresh_acc" /\ rfret' = "m_servers_retry"
                 /\ UNCHANGED << idx, servers, sidx, throttled_list, throttled_map,
                                 ok_counts, warns, result >>
          ELSE IF resp.status /= 200 \/ ~UnwrapServers(resp).ok
            THEN /\ WarnAndContinue("rest_failed")
                 /\ UNCHANGED << servers, sidx, throttled_list, throttled_map,
                                 ok_counts, rfret >>
          ELSE LET svs == UnwrapServers(resp).items
                   j == NextSid(svs, 1)
               IN /\ servers' = svs /\ throttled_list' = << >> /\ sidx' = j
                  /\ IF j > Len(svs)
                       THEN RecordAndContinue(<< >>, Len(svs))
                       ELSE /\ pc' = "m_iface"
                            /\ UNCHANGED << idx, throttled_map, ok_counts, result >>
                  /\ UNCHANGED << warns, rfret >>
  /\ UNCHANGED << self, accounts, heap, saved, now, ticks, issued, try_accounts,
                  headers, notices, pre, lastrf >>
  /\ UNCHANGED apiVars
  /\ lastif' = NoIface

(* lines 575-598 for the server at sidx *)
MultiGetInterfaces ==
  /\ pc \in {"m_iface", "m_iface_retry"}
  /\ \E resp \in IfaceResponses :
       /\ Charge(IfaceFault(resp))
       /\ h' = [h EXCEPT ![Cur].status = @ + 1,
                         ![Cur].retries = @ + (IF pc = "m_iface_retry" THEN 1 ELSE 0),
                         ![Cur].determined = @ + Determined(resp.status = 200)]
       /\ lastif' = RestIface(resp, servers[sidx])
       /\ IF RetryOn401(pc, resp.status)
            THEN /\ pc' = "refresh_acc" /\ rfret' = "m_iface_retry"
                 /\ UNCHANGED << idx, sidx, throttled_list, throttled_map,
                                 ok_counts, warns, result >>
          ELSE IF resp.status /= 200               \* raise_for_status(): line 599
            THEN /\ WarnDropping("rest_failed", throttled_list, Unqueried(servers, sidx))
                 /\ UNCHANGED << sidx, throttled_list, throttled_map, ok_counts, rfret >>
          ELSE LET ifs == UnwrapInterfaces(resp)
                   tl == IF FirstThrottled(ifs) /= 0
                           THEN Append(throttled_list, ThrottledEntry(servers[sidx], ifs))
                           ELSE throttled_list
                   j == NextSid(servers, sidx + 1)
               IN /\ throttled_list' = tl /\ sidx' = j
                  /\ IF j > Len(servers)
                       THEN RecordAndContinue(tl, Len(servers))
                       ELSE /\ pc' = "m_iface"
                            /\ UNCHANGED << idx, throttled_map, ok_counts, result >>
                  /\ UNCHANGED << warns, rfret >>
  /\ UNCHANGED << self, accounts, heap, saved, now, ticks, issued, try_accounts,
                  headers, servers, notices, pre, lastrf >>
  /\ UNCHANGED apiVars

(* lines 629-650: the SOAP client and getVServers of a SOAP account *)
MultiSoapList ==
  /\ pc = "m_soap_list"
  /\ \E resp \in SoapListResponses :
       /\ Charge(SoapListFault(resp))
       /\ CASE resp.kind = "wsdl" ->
                 /\ WarnAndContinue("wsdl_failed")
                 /\ UNCHANGED << servers, sidx, throttled_list, throttled_map, ok_counts >>
            [] resp.kind = "error" ->
                 /\ WarnAndContinue("list_failed")
                 /\ UNCHANGED << servers, sidx, throttled_list, throttled_map, ok_counts >>
            [] resp.kind = "ok" /\ resp.vps = << >> ->       \* if not vps_list
                 /\ ok_counts' = Append(ok_counts, [name |-> Name, cnt |-> 0])
                 /\ throttled_map' = MapPut(throttled_map, Name, << >>)
                 /\ result' = [result EXCEPT ![Cur] = [state |-> "checked", lst |-> << >>,
                                                       total |-> 0, lost |-> << >>,
                                                       skipped |-> 0]]
                 /\ idx' = idx + 1 /\ pc' = "m_loop"
                 /\ UNCHANGED << servers, sidx, throttled_list, warns >>
            [] resp.kind = "ok" /\ resp.vps /= << >> ->
                 /\ servers' = resp.vps /\ sidx' = 1 /\ throttled_list' = << >>
                 /\ pc' = "m_soap_info"
                 /\ UNCHANGED << idx, throttled_map, ok_counts, warns, result >>
  /\ UNCHANGED << self, accounts, heap, saved, now, ticks, issued, try_accounts,
                  headers, rfret, notices, h, pre, lastrf >>
  /\ UNCHANGED apiVars
  /\ lastif' = NoIface

(* lines 653-674 for the vServer at sidx *)
MultiSoapInfo ==
  /\ pc = "m_soap_info"
  /\ \E resp \in SoapInfoResponses :
       /\ Charge(SoapInfoFault(resp))
       /\ lastif' = SoapIface(resp)
       /\ h' = [h EXCEPT ![Cur].determined = @ + Determined(resp.kind = "ok")]
       /\ LET tl == IF resp.kind = "ok" /\ FirstThrottled(resp.serverInterfaces) /= 0
                      THEN Append(throttled_list, SoapEntry(servers[sidx], resp))
                      ELSE throttled_list            \* except: logger.warning only
          IN /\ throttled_list' = tl
             /\ sidx' = sidx + 1
             /\ IF sidx + 1 > Len(servers)
                  THEN RecordAndContinue(tl, Len(servers))
                  ELSE UNCHANGED << pc, idx, throttled_map, ok_counts, result >>
  /\ UNCHANGED << self, accounts, heap, saved, now, ticks, issued, try_accounts,
                  headers, servers, warns, rfret, notices, pre, lastrf >>
  /\ UNCHANGED apiVars

(* lines 676-698: the aggregated notification *)
MultiSummary ==
  /\ pc = "m_loop" /\ idx > Len(try_accounts)
  /\ LET any_throttled == \E i \in DOMAIN throttled_map : throttled_map[i].lst /= << >>
     IN IF any_throttled
          THEN Notify("alert_multi",
                      SelectSeq(throttled_map, LAMBDA e : e.lst /= << >>),
                      << >>, warns, FALSE)
        ELSE IF self.notify_all_ok
          THEN Notify("ok_multi", << >>, ok_counts, warns, TRUE)
        ELSE UNCHANGED notices
  /\ pc' = AfterSummary
  /\ UNCHANGED << self, accounts, heap, saved, now, ticks, issued, budget, try_accounts,
                  idx, headers, servers, sidx, throttled_list, throttled_map, ok_counts,
                  warns, rfret, h, pre, result, lastrf >>
  /\ UNCHANGED apiVars
  /\ lastif' = NoIface

(* ------------------- single-account (top-level) logic ------------------ *)
(* lines 704-730 and 797-802: reached when no account is enabled, or when
   the aggregation raised (line 699) *)
SingleStart ==
  /\ pc = "single"
  /\ IF self.api_mode = "rest"
       THEN LET t == Tokens(self)
                rd == Readiness(t, now)
            IN /\ pre' = [pre EXCEPT ![Global] = [seen |-> TRUE, now |-> now, at |-> t.at,
                                                  rt |-> t.rt, exp |-> t.exp]]
               /\ CASE rd = "refresh" ->
                         /\ pc' = "refresh_glob" /\ rfret' = "s_ready"
                         /\ UNCHANGED << headers, notices >>
                    [] rd = "raise" ->              \* int() raises: except of line 777
                         /\ Notify("rest_failed", << >>, << >>, << >>, FALSE)
                         /\ pc' = "done"
                         /\ UNCHANGED << headers, rfret >>
                    [] rd = "ready" /\ ~Authorized(t.at) ->
                         /\ Notify("rest_unauthorized", << >>, << >>, << >>, FALSE)
                         /\ pc' = "done"
                         /\ UNCHANGED << headers, rfret >>
                    [] rd = "ready" /\ Authorized(t.at) ->
                         /\ headers' = t.at /\ pc' = "s_servers"
                         /\ UNCHANGED << rfret, notices >>
       ELSE /\ IF ~Truthy(self.customer) \/ ~Truthy(self.password)
                 THEN /\ Notify("soap_unconfigured", << >>, << >>, << >>, FALSE)
                      /\ pc' = "done"
                 ELSE /\ pc' = "s_soap_list"
                      /\ UNCHANGED notices
            /\ UNCHANGED << pre, headers, rfret >>
  /\ UNCHANGED << self, accounts, heap, saved, now, ticks, issued, budget, try_accounts,
                  idx, servers, sidx, throttled_list, throttled_map, ok_counts, warns,
                  h, result, lastrf >>
  /\ UNCHANGED apiVars
  /\ lastif' = NoIface

(* lines 428-457 with the code after its call sites: 719-730 and 782-794 *)
RefreshAccessToken ==
  /\ pc = "refresh_glob"
  /\ \E resp \in RefreshResponses(issued), persistOk \in BOOLEAN :
       LET r == Refresh(Tokens(self), resp, now, persistOk)
           self1 == WithTokens(self, r.t)
       IN /\ Charge(r.sent /\ RefreshFault(resp, persistOk))
          /\ ~r.sent => (resp.status = 400 /\ persistOk)   \* no exchange: the answer is moot
          /\ self' = self1
          /\ saved' = IF r.persisted THEN Snapshot(self1, accounts, heap) ELSE saved
          /\ issued' = IF r.sent /\ resp.status = 200 THEN issued + 1 ELSE issued
          /\ h' = [h EXCEPT ![Global].refreshes = @ + (IF r.sent THEN 1 ELSE 0),
                            ![Global].r401 = @ + (IF r.sent /\ rfret = "s_retry" THEN 1 ELSE 0)]
          /\ lastrf' = [slot |-> Global, before |-> Tokens(self), after |-> r.t,
                        sent |-> r.sent, ok |-> r.ok, n |-> lastrf.n + 1, clock |-> now,
                        answer |-> IF r.sent THEN Answer(resp) ELSE NoAnswer]
          /\ IF rfret = "s_ready"
               THEN IF ~Authorized(r.t.at)          \* if not self._rest_access_token
                      THEN /\ Notify("rest_unauthorized", << >>, << >>, << >>, FALSE)
                           /\ pc' = "done" /\ UNCHANGED headers
                      ELSE /\ headers' = r.t.at /\ pc' = "s_servers"
                           /\ UNCHANGED notices
               ELSE IF r.ok                         \* line 782: retry the server list
                      THEN /\ headers' = r.t.at /\ pc' = "s_retry"
                           /\ UNCHANGED notices
                      ELSE /\ Notify("rest_failed", << >>, << >>, << >>, FALSE)
                           /\ pc' = "done" /\ UNCHANGED headers
  /\ UNCHANGED << accounts, heap, now, ticks, try_accounts, idx, servers, sidx,
                  throttled_list, throttled_map, ok_counts, warns, rfret, pre, result >>
  /\ UNCHANGED apiVars
  /\ lastif' = NoIface

(* lines 732-751 and, when the list has no server to query, 771-776 *)
SingleGetServers ==
  /\ pc = "s_servers"
  /\ h' = [h EXCEPT ![Global].status = @ + 1]
  /\ \E resp \in ServersResponses :
       /\ Charge(ServersFault(resp))
       /\ IF resp.status = 401                     \* '401' in str(e): line 781
            THEN /\ pc' = "refresh_glob" /\ rfret' = "s_retry"
                 /\ UNCHANGED << servers, sidx, throttled_list, notices >>
          ELSE IF resp.status /= 200 \/ ~UnwrapServers(resp).ok
            THEN /\ Notify("rest_failed", << >>, << >>, << >>, FALSE)
                 /\ pc' = "done"
                 /\ UNCHANGED << servers, sidx, throttled_list, rfret >>
          ELSE LET svs == UnwrapServers(resp).items
                   j == NextSid(svs, 1)
               IN /\ servers' = svs /\ throttled_list' = << >> /\ sidx' = j
                  /\ IF j > Len(svs)
                       THEN SingleSummary(<< >>, Len(svs)) /\ pc' = "done"
                       ELSE pc' = "s_iface" /\ UNCHANGED notices
                  /\ UNCHANGED rfret
  /\ UNCHANGED << self, accounts, heap, saved, now, ticks, issued, try_accounts, idx,
                  headers, throttled_map, ok_counts, warns, pre, result, lastrf >>
  /\ UNCHANGED apiVars
  /\ lastif' = NoIface

(* lines 752-776 for the server at sidx *)
SingleGetInterfaces ==
  /\ pc = "s_iface"
  /\ h' = [h EXCEPT ![Global].status = @ + 1]
  /\ \E resp \in IfaceResponses :
       /\ Charge(IfaceFault(resp))
       /\ lastif' = RestIface(resp, servers[sidx])
       /\ IF resp.status = 401                     \* '401' in str(e): line 781
            THEN /\ pc' = "refresh_glob" /\ rfret' = "s_retry"
                 /\ UNCHANGED << sidx, throttled_list, notices >>
          ELSE IF resp.status /= 200
            THEN /\ Notify("rest_failed", << >>, << >>, << >>, FALSE)
                 /\ pc' = "done"
                 /\ UNCHANGED << sidx, throttled_list, rfret >>
          ELSE LET ifs == UnwrapInterfaces(resp)
                   tl == IF FirstThrottled(ifs) /= 0
                           THEN Append(throttled_list, ThrottledEntry(servers[sidx], ifs))
                           ELSE throttled_list
                   j == NextSid(servers, sidx + 1)
               IN /\ throttled_list' = tl /\ sidx' = j
                  /\ IF j > Len(servers)
                       THEN SingleSummary(tl, Len(servers)) /\ pc' = "done"
                       ELSE pc' = "s_iface" /\ UNCHANGED notices
                  /\ UNCHANGED rfret
  /\ UNCHANGED << self, accounts, heap, saved, now, ticks, issued, try_accounts, idx,
                  headers, servers, throttled_map, ok_counts, warns, pre, result, lastrf >>
  /\ UNCHANGED apiVars

(* lines 783-794: the one retried GET of the server list after a 401 *)
SingleRetryServers ==
  /\ pc = "s_retry"
  /\ h' = [h EXCEPT ![Global].status = @ + 1, ![Global].retries = @ + 1]
  /\ \E resp \in ServersResponses :                \* the body is not looked at
       /\ Charge(resp.status /= 200)
       /\ IF resp.status = 200                     \* logger.info; return
            THEN UNCHANGED notices
            ELSE Notify("rest_failed", << >>, << >>, << >>, FALSE)
  /\ pc' = "done"
  /\ UNCHANGED << self, accounts, heap, saved, now, ticks, issued, try_accounts, idx,
                  headers, servers, sidx, throttled_list, throttled_map, ok_counts,
                  warns, rfret, pre, result, lastrf >>
  /\ UNCHANGED apiVars
  /\ lastif' = NoIface

(* lines 828-851: the SOAP client and getVServers with the top-level credentials *)
SingleSoapList ==
  /\ pc = "s_soap_list"
  /\ \E resp \in SoapListResponses :
       /\ Charge(SoapListFault(resp))
       /\ CASE resp.kind = "wsdl" ->
                 /\ Notify("wsdl_failed", << >>, << >>, << >>, FALSE)
                 /\ pc' = "done" /\ UNCHANGED << servers, sidx, throttled_list >>
            [] resp.kind = "error" ->
                 /\ Notify("list_failed", << >>, << >>, << >>, FALSE)
                 /\ pc' = "done" /\ UNCHANGED << servers, sidx, throttled_list >>
            [] resp.kind = "ok" /\ resp.vps = << >> ->       \* if not vps_list
                 /\ Notify("no_vps", << >>, << >>, << >>, TRUE)
                 /\ pc' = "done" /\ UNCHANGED << servers, sidx, throttled_list >>
            [] resp.kind = "ok" /\ resp.vps /= << >> ->
                 /\ servers' = resp.vps /\ sidx' = 1 /\ throttled_list' = << >>
                 /\ pc' = "s_soap_info" /\ UNCHANGED notices
  /\ UNCHANGED << self, accounts, heap, saved, now, ticks, issued, try_accounts, idx,
                  headers, throttled_map, ok_counts, warns, rfret, h, pre, result, lastrf >>
  /\ UNCHANGED apiVars
  /\ lastif' = NoIface

(* lines 872-908 for the vServer at sidx *)
SingleSoapInfo ==
  /\ pc = "s_soap_info"
  /\ \E resp \in SoapInfoResponses :
       /\ Charge(SoapInfoFault(resp))
       /\ lastif' = SoapIface(resp)
       /\ LET tl == IF resp.kind = "ok" /\ FirstThrottled(resp.serverInterfaces) /= 0
                      THEN Append(throttled_list, SoapEntry(servers[sidx], resp))
                      ELSE throttled_list            \* except: logger.warning only
          IN /\ throttled_list' = tl
             /\ sidx' = sidx + 1
             /\ IF sidx + 1 > Len(servers)
                  THEN SingleSummary(tl, Len(servers)) /\ pc' = "done"
                  ELSE UNCHANGED << pc, notices >>
  /\ UNCHANGED << self, accounts, heap, saved, now, ticks, issued, try_accounts, idx,
                  headers, servers, throttled_map, ok_counts, warns, rfret, h, pre,
                  result, lastrf >>
  /\ UNCHANGED apiVars

(* the locals of _run_check are gone when it returns *)
Return ==
  /\ pc' = "idle"
  /\ try_accounts' = << >> /\ idx' = 1 /\ headers' = None
  /\ servers' = << >> /\ sidx' = 1 /\ throttled_list' = << >>
  /\ throttled_map' = << >> /\ ok_counts' = << >> /\ warns' = << >>
  /\ rfret' = "none" /\ notices' = << >>
  /\ h' = [s \in Slots |-> NoCount]
  /\ pre' = [s \in Slots |-> NoPre]
  /\ result' = [r \in Refs |-> NoResult]
  /\ lastrf' = NoRefresh
  /\ lastif' = NoIface

(* the run stopped at the dependency imports, line 472 *)
DepsFailed == notices /= << >> /\ notices[1].title = "dep_error"

(* what a notification says: its title and its lines *)
Content(ns) ==
  [k \in DOMAIN ns |-> [title |-> ns[k].title, groups |-> ns[k].groups,
                        counts |-> ns[k].counts, warns |-> ns[k].warns]]

(* a scheduled _run_check returned; the scheduler may start the next run *)
RunEnd ==
  /\ pc = "done" /\ loaded.state /= "running"
  /\ Return
  /\ prev' = IF world.fixed
               THEN [ran |-> TRUE, imports |-> ~DepsFailed, notices |-> Content(notices),
                     lists |-> << throttled_map, throttled_list >>]
               ELSE prev
  /\ UNCHANGED << self, accounts, heap, saved, now, ticks, issued, budget >>
  /\ UNCHANGED << flow, calls, lastcall, rich, world, inflight, loaded >>

(* the wall clock advances between two runs *)
Tick ==
  /\ pc = "idle"
  /\ ticks < MaxTicks
  /\ ticks' = ticks + 1
  /\ now' = now + TickStep
  /\ UNCHANGED << self, accounts, heap, saved, issued, budget, pc, try_accounts, idx,
                  headers, servers, sidx, throttled_list, throttled_map, ok_counts,
                  warns, rfret, notices, h, pre, result, lastrf >>
  /\ UNCHANGED apiVars
  /\ lastif' = NoIface

Next ==
  \/ RunStart
  \/ MultiAccount
  \/ RefreshForAccount
  \/ MultiGetServers
  \/ MultiGetInterfaces
  \/ MultiSoapList
  \/ MultiSoapInfo
  \/ MultiSummary
  \/ SingleStart
  \/ RefreshAccessToken
  \/ SingleGetServers
  \/ SingleGetInterfaces
  \/ SingleRetryServers
  \/ SingleSoapList
  \/ SingleSoapInfo
  \/ RunEnd
  \/ Tick

Spec == Init /\ [][Next]_vars

(* ----------------------------- init_plugin ----------------------------- *)
(* the class attributes of lines 36-53, before init_plugin runs *)
SelfDefaults ==
  [notify_all_ok |-> TRUE, api_mode |-> "rest", customer |-> None, password |-> None,
   rest_access_token |-> None, rest_refresh_token |-> None,
   rest_token_expires_at |-> None, onlyonce |-> FALSE]

(* (config.get(k) or "").strip() or None, lines 74-76 *)
StripOrNone(v) == IF Truthy(v) THEN v ELSE None

(* lines 71-73: anything but 'rest' and 'soap' becomes 'rest' *)
ModeOrRest(m) == IF m \in {"rest", "soap"} THEN m ELSE "rest"

(* the assignments of lines 57-77 from the config c *)
FromConfig(c) ==
  [notify_all_ok |-> c.notify_all_ok, api_mode |-> ModeOrRest(c.api_mode),
   customer |-> c.customer, password |-> c.password,
   rest_access_token |-> StripOrNone(c.rest_access_token),
   rest_refresh_token |-> StripOrNone(c.rest_refresh_token),
   rest_token_expires_at |-> c.rest_token_expires_at, onlyonce |-> c.onlyonce]

(* mutant: the finally of line 91 left out *)
OnlyOnceKept == TRUE

(* "finally: self._onlyonce = False", line 91 *)
OnlyOnceAfterRun == FALSE

(* init_plugin(config), lines 55-92, up to the immediate run when onlyonce is
   set and to its end otherwise.  The host passes the persisted config. *)
InitPlugin ==
  /\ pc = "idle" /\ loaded.state = "called"
  /\ self' = FromConfig(saved.self)
  /\ accounts' = [i \in DOMAIN saved.accounts |-> i]     \* self._accounts = accs
  /\ IF self'.onlyonce
       THEN /\ loaded' = [loaded EXCEPT !.state = "running"]   \* line 87 is next
            /\ UNCHANGED << saved, budget >>
       ELSE \E persistOk \in BOOLEAN :                          \* line 92
              /\ Charge(~persistOk)
              /\ saved' = IF persistOk THEN Snapshot(self', accounts', heap) ELSE saved
              /\ loaded' = [loaded EXCEPT !.state = IF persistOk THEN "returned"
                                                    ELSE "raised"]
  /\ UNCHANGED << heap, now, ticks, issued, pc, try_accounts, idx, headers, servers,
                  sidx, throttled_list, throttled_map, ok_counts, warns, rfret, notices,
                  h, pre, result, lastrf, lastif >>
  /\ UNCHANGED << flow, calls, lastcall, rich, world, inflight, prev >>

(* lines 88-92 after the immediate run: the finally and __update_config() *)
InitPluginFinish ==
  /\ pc = "done" /\ loaded.state = "running"
  /\ Return
  /\ self' = [self EXCEPT !.onlyonce = OnlyOnceAfterRun]
  /\ \E persistOk \in BOOLEAN :
       /\ Charge(~persistOk)
       /\ saved' = IF persistOk THEN Snapshot(self', accounts, heap) ELSE saved
       /\ loaded' = [loaded EXCEPT !.state = IF persistOk THEN "returned" ELSE "raised"]
  /\ UNCHANGED << accounts, heap, now, ticks, issued >>
  /\ UNCHANGED << flow, calls, lastcall, rich, world, inflight, prev >>

(* the configs the host can pass: as the top-level fields, with onlyonce set
   or not, an api_mode that is neither, and tokens that are empty strings *)
ConfigValues(n) ==
  { [c EXCEPT !.onlyonce = o] : c \in SelfValues(n), o \in BOOLEAN }
  \cup { [SelfRest(TRUE, [at |-> 0, rt |-> 0, exp |-> None])
           EXCEPT !.api_mode = "xml", !.onlyonce = o] : o \in BOOLEAN }

(* the plugin object constructed and init_plugin about to be called *)
InitBoot ==
  \E n \in 0 .. SoloAccounts :
    /\ self = SelfDefaults
    /\ accounts = << >>
    /\ \E f \in [1 .. n -> UNION { FewAccountsAt(i) : i \in 1 .. n }] :
         /\ \A i \in 1 .. n : f[i] \in FewAccountsAt(i)
         /\ heap = [i \in Refs |-> IF i <= n THEN f[i] ELSE Blank(i)]
    /\ \E c \in ConfigValues(n) :
         /\ saved = Snapshot(c, [i \in 1 .. n |-> i], heap)
         /\ loaded = [state |-> "called", asked |-> c.onlyonce, runs |-> 0]
    /\ now = T0 /\ ticks = 0 /\ issued = 0
    /\ flow = NoFlow /\ calls = 0 /\ lastcall = NoCall
    /\ world = AnyWorld /\ inflight = NoFlight /\ prev = NoPrev
    /\ Idle
    /\ budget = MultiFaults
    /\ rich = FALSE

NextInit == InitPlugin \/ InitPluginFinish \/ Next

SpecInit == InitBoot /\ [][NextInit]_vars

(* ---------------------- the API handlers of the plugin ------------------ *)
(* what the API handlers leave alone: the locals and history of _run_check *)
runVars == << ticks, budget, pc, try_accounts, idx, headers, servers, sidx,
              throttled_list, throttled_map, ok_counts, warns, rfret, notices, h, pre,
              result, lastrf, lastif, rich, world, inflight, prev, loaded >>

(* the 'id' / 'account_id' of a request: none, the id of an account dict, or
   an id no account has *)
NoSuchId == MaxAccounts + 1
Targets  == {None} \cup Refs \cup {NoSuchId}

(* "for a in self._accounts: if a.get('id') == acc_id": the first match, or
   Global when acc_id is empty or matches no account *)
Matching(target) ==
  { i \in DOMAIN accounts : Truthy(target) /\ heap[accounts[i]].id = target }
TargetSlot(target) ==
  IF Matching(target) = {} THEN Global
  ELSE accounts[CHOOSE i \in Matching(target) : \A j \in Matching(target) : i <= j]

(* the tokens t written to slot s *)
WriteSlot(s, t) ==
  /\ self' = IF s = Global THEN WithTokens(self, t) ELSE self
  /\ heap' = IF s = Global THEN heap ELSE [heap EXCEPT ![s] = WithTokens(@, t)]

(* __update_config() after the write: persisted unless it raises *)
Persist(persistOk) ==
  saved' = IF persistOk THEN Snapshot(self', accounts, heap') ELSE saved

(* answers of the device authorization endpoint: status 0 is a network error *)
DeviceResponses ==
  { [status |-> st, expires_in |-> None] : st \in {0, 500} }
  \cup { [status |-> 200, expires_in |-> DeviceLifetime] }

(* start_device_flow, lines 910-937: nothing of the plugin changes; the
   caller learns the device code and its lifetime *)
StartDeviceFlow ==
  /\ pc = "idle" /\ calls < MaxCalls
  /\ \E target \in Targets, resp \in DeviceResponses :
       /\ flow' = IF resp.status = 200
                    THEN [started |-> TRUE, expires_at |-> now + resp.expires_in,
                          target |-> target]
                    ELSE flow
       /\ lastcall' = [op |-> "start", target |-> target,
                       answer |-> IF resp.status = 200 THEN "ok" ELSE "error",
                       code |-> IF resp.status = 200 THEN 200 ELSE 500,
                       posts |-> 1, clock |-> now, deadline |-> flow'.expires_at,
                       req |-> NoReq]
  /\ calls' = calls + 1
  /\ UNCHANGED << self, accounts, heap, saved, now, issued >>
  /\ UNCHANGED runVars

(* answers of the token endpoint to grant_type=device_code while the flow f
   runs: "error" is a network error, the 400s carry the OAuth error code, a
   200 carries tokens *)
PollResponses(f, clock, n) ==
  { [status |-> 0, answer |-> "error", body |-> "none", access_token |-> None,
     refresh_token |-> None, expires_in |-> None],
    [status |-> 400, answer |-> "access_denied", body |-> "json", access_token |-> None,
     refresh_token |-> None, expires_in |-> None] }
  \cup
  (IF clock > f.expires_at
     THEN { [status |-> 400, answer |-> "expired_token", body |-> "json",
             access_token |-> None, refresh_token |-> None, expires_in |-> None] }
     ELSE { [status |-> 400, answer |-> "authorization_pending", body |-> "json",
             access_token |-> None, refresh_token |-> None, expires_in |-> None] }
          \cup
          (IF n >= MaxIssued THEN {}
           ELSE { [status |-> 200, answer |-> "granted", body |-> "bad",
                   access_token |-> None, refresh_token |-> None, expires_in |-> None],
                  [status |-> 200, answer |-> "granted", body |-> "json",
                   access_token |-> FreshAT(n), refresh_token |-> FreshRT(n),
                   expires_in |-> None],
                  [status |-> 200, answer |-> "granted", body |-> "json",
                   access_token |-> FreshAT(n), refresh_token |-> FreshRT(n),
                   expires_in |-> Malformed] }))

(* mutant: a non-200 answer is not told apart *)
PollPendingNever(status) == FALSE

(* "if resp.status_code != 200: return {'code': 202, ...}": line 956 *)
PollPending(status) == status /= 200

(* poll_device_token, lines 939-982: one exchange for the device code of the
   running flow, then the tokens are stored in the slot the id selects *)
PollDeviceToken ==
  /\ pc = "idle" /\ calls < MaxCalls /\ flow.started
  /\ \E target \in Targets, resp \in PollResponses(flow, now, issued), persistOk \in BOOLEAN :
       LET ein == Lifetime(resp.expires_in)
           t == [at |-> resp.access_token, rt |-> resp.refresh_token, exp |-> now + ein]
           raised == resp.status = 0 \/ resp.body /= "json" \/ ein = Malformed
           stored == resp.status /= 0 /\ ~PollPending(resp.status) /\ ~raised
       IN /\ ~stored => persistOk                        \* nothing to persist
          /\ IF stored
               THEN WriteSlot(TargetSlot(target), t) /\ Persist(persistOk)
               ELSE UNCHANGED << self, heap, saved >>
          /\ issued' = IF resp.status = 200 THEN issued + 1 ELSE issued
          /\ flow' = IF resp.status = 200 THEN NoFlow ELSE flow
          /\ lastcall' = [op |-> "poll", target |-> target, answer |-> resp.answer,
                          code |-> IF resp.status = 0 THEN 500
                                   ELSE IF PollPending(resp.status) THEN 202
                                   ELSE IF raised \/ ~persistOk THEN 500
                                   ELSE 200,
                          posts |-> 1, clock |-> now, deadline |-> flow.expires_at,
                          req |-> NoReq]
  /\ calls' = calls + 1
  /\ UNCHANGED << accounts, now >>
  /\ UNCHANGED runVars

(* answers of the revocation endpoint: status 0 is a network error or timeout *)
RevokeResponses == { [status |-> st] : st \in {0, 200, 400} }

(* revoke_device_token, lines 984-1019: the revocation is posted when the
   slot holds a refresh token, then the slot is cleared and persisted *)
RevokeCall ==
  /\ calls < MaxCalls
  /\ \E target \in Targets, resp \in RevokeResponses, persistOk \in BOOLEAN :
       LET s == TargetSlot(target)
           posted == Truthy(SlotTokens(s).rt)             \* if rt: requests.post(...)
           raised == posted /\ resp.status = 0
       IN /\ ~posted => resp.status = 200                \* no request: the answer is moot
          /\ raised => persistOk
          /\ IF raised
               THEN UNCHANGED << self, heap, saved >>
               ELSE WriteSlot(s, NoTokens) /\ Persist(persistOk)
          /\ lastcall' = [op |-> "revoke", target |-> target,
                          answer |-> IF ~posted THEN "none"
                                     ELSE IF resp.status = 0 THEN "error"
                                     ELSE IF resp.status = 200 THEN "ok" ELSE "rejected",
                          code |-> IF raised \/ ~persistOk THEN 500 ELSE 200,
                          posts |-> IF posted THEN 1 ELSE 0,
                          clock |-> now, deadline |-> flow.expires_at, req |-> NoReq]
  /\ calls' = calls + 1
  /\ UNCHANGED << accounts, now, issued, flow >>
  /\ UNCHANGED runVars

(* the handler called while no run is in progress *)
RevokeDeviceToken == pc = "idle" /\ RevokeCall

(* the plugin loaded with up to MaxAccounts REST accounts, each slot
   authorized or not, and no run in progress *)
InitApi ==
  \E n \in 0 .. PairAccounts :
    /\ self \in { SelfRest(TRUE, t) : t \in { NoTokens, [at |-> 1, rt |-> 2, exp |-> T0 + 100] } }
    /\ accounts = [i \in 1 .. n |-> i]
    /\ heap \in [Refs -> UNION { { Blank(i) } \cup
                     { Account(i, "A", TRUE, "rest", t, None) :
                         t \in { NoTokens, [at |-> 1, rt |-> 2, exp |-> T0 + 100] } } : i \in Refs }]
    /\ \A i \in Refs : heap[i].id = i /\ (heap[i].enabled <=> i <= n)
    /\ saved = Snapshot(self, accounts, heap)
    /\ now = T0 /\ ticks = 0 /\ issued = 0
    /\ flow = NoFlow /\ calls = 0 /\ lastcall = NoCall
    /\ world = AnyWorld /\ inflight = NoFlight /\ prev = NoPrev /\ loaded = AfterLoad
    /\ Idle
    /\ budget = 0
    /\ rich = FALSE

NextApi ==
  \/ StartDeviceFlow
  \/ PollDeviceToken
  \/ RevokeDeviceToken
  \/ Tick

SpecApi == InitApi /\ [][NextApi]_vars

(* ------------------- accounts: add / remove / update -------------------- *)
(* what the account handlers leave alone besides the run *)
Call(op, id, code, req) ==
  /\ lastcall' = [op |-> op, target |-> id, answer |-> "none", code |-> code,
                  posts |-> 0, clock |-> now, deadline |-> flow.expires_at, req |-> req]
  /\ calls' = calls + 1
  /\ UNCHANGED << self, now, issued, flow >>
  /\ UNCHANGED runVars

(* the dict references not in self._accounts: a new dict takes the first *)
FreeRefs == { r \in Refs : \A i \in DOMAIN accounts : accounts[i] /= r }
NewRef   == CHOOSE r \in FreeRefs : \A q \in FreeRefs : r <= q

(* account_add, lines 1022-1046: a dict with a new id, the given name or the
   default one, enabled, REST, no tokens; appended and persisted *)
AccountAdd ==
  /\ pc = "idle" /\ calls < MaxCalls /\ FreeRefs /= {}
  /\ \E name \in {"", "A"}, persistOk \in BOOLEAN :
       LET acc == Account(NewRef, IF name = "" THEN "new" ELSE name, TRUE, "rest",
                          NoTokens, None)
       IN /\ heap' = [heap EXCEPT ![NewRef] = acc]
          /\ accounts' = Append(accounts, NewRef)
          /\ saved' = IF persistOk THEN Snapshot(self, accounts', heap') ELSE saved
          /\ Call("add", NewRef, IF persistOk THEN 200 ELSE 500, NoReq)

(* account_remove, lines 1048-1062: every dict with the id leaves the list *)
AccountRemove ==
  /\ pc = "idle" /\ calls < MaxCalls
  /\ \E id \in Targets, persistOk \in BOOLEAN :
       IF ~Truthy(id)                                     \* 'id required'
         THEN /\ persistOk
              /\ UNCHANGED << accounts, heap, saved >>
              /\ Call("remove", id, 400, NoReq)
         ELSE /\ accounts' = SelectSeq(accounts, LAMBDA r : heap[r].id /= id)
              /\ saved' = IF persistOk THEN Snapshot(self, accounts', heap) ELSE saved
              /\ UNCHANGED heap
              /\ Call("remove", id, IF persistOk THEN 200 ELSE 500, NoReq)

(* the requests of account_update: no key but the id, one key, the two SOAP
   credentials, or all of them *)
UpdateRequests ==
  { [NoReq EXCEPT !.id = id] : id \in Targets }
  \cup { [NoReq EXCEPT !.id = id, !.has = {"name"}, !.name = nm] :
           id \in Targets, nm \in {"", "B"} }
  \cup { [NoReq EXCEPT !.id = id, !.has = {"enabled"}, !.enabled = en] :
           id \in Targets, en \in BOOLEAN }
  \cup { [NoReq EXCEPT !.id = id, !.has = {"api_mode"}, !.api_mode = m] :
           id \in Targets, m \in {"", "rest", "soap", "SOAP", "xml"} }
  \cup { [NoReq EXCEPT !.id = id, !.has = {"customer", "password"},
                       !.customer = 1, !.password = 1] : id \in Targets }
  \cup { [id |-> id, has |-> {"name", "enabled", "api_mode", "customer", "password"},
          name |-> "B", enabled |-> FALSE, api_mode |-> "SOAP",
          customer |-> 1, password |-> 1] : id \in Targets }

(* str.lower() on the api_mode values of the requests *)
Lower(m) == IF m = "SOAP" THEN "soap" ELSE m

(* mutant: the api_mode of the request stored as it is given *)
ApiModeAsGiven(m) == m

(* lines 1079-1080: mode = str(req.get('api_mode') or 'rest').lower();
   'soap' if mode == 'soap' else 'rest' *)
ApiModeOf(m) == IF Lower(IF m = "" THEN "rest" ELSE m) = "soap" THEN "soap" ELSE "rest"

(* lines 1074-1085 on the dict a *)
Updated(a, req) ==
  [a EXCEPT !.name = IF "name" \in req.has THEN req.name ELSE @,
            !.enabled = IF "enabled" \in req.has THEN req.enabled ELSE @,
            !.api_mode = IF "api_mode" \in req.has THEN ApiModeOf(req.api_mode) ELSE @,
            !.customer = IF "customer" \in req.has THEN req.customer ELSE @,
            !.password = IF "password" \in req.has THEN req.password ELSE @]

(* account_update, lines 1064-1090: the first dict with the id is updated
   and the configuration persisted; 400 without an id, 404 without a match *)
AccountUpdate ==
  /\ pc = "idle" /\ calls < MaxCalls
  /\ \E req \in UpdateRequests, persistOk \in BOOLEAN :
       IF ~Truthy(req.id) \/ Matching(req.id) = {}
         THEN /\ persistOk
              /\ UNCHANGED << accounts, heap, saved >>
              /\ Call("update", req.id, IF ~Truthy(req.id) THEN 400 ELSE 404, req)
         ELSE /\ heap' = [heap EXCEPT ![TargetSlot(req.id)] = Updated(@, req)]
              /\ saved' = IF persistOk THEN Snapshot(self, accounts, heap') ELSE saved
              /\ UNCHANGED accounts
              /\ Call("update", req.id, IF persistOk THEN 200 ELSE 500, req)

(* the plugin loaded with up to PairAccounts authorized REST accounts *)
InitAccounts ==
  \E n \in 0 .. PairAccounts :
    /\ self = SelfRest(TRUE, Authorized1)
    /\ accounts = [i \in 1 .. n |-> i]
    /\ heap = [i \in Refs |-> IF i <= n THEN Account(i, "A", TRUE, "rest", Authorized1, None)
                                         ELSE Blank(i)]
    /\ saved = Snapshot(self, accounts, heap)
    /\ now = T0 /\ ticks = 0 /\ issued = 0
    /\ flow = NoFlow /\ calls = 0 /\ lastcall = NoCall
    /\ world = AnyWorld /\ inflight = NoFlight /\ prev = NoPrev /\ loaded = AfterLoad
    /\ Idle
    /\ budget = 0
    /\ rich = FALSE

NextAccounts ==
  \/ AccountAdd
  \/ AccountRemove
  \/ AccountUpdate

SpecAccounts == InitAccounts /\ [][NextAccounts]_vars

SpecMulti == InitMulti /\ [][Next]_vars

(* ------------------ a run and an API handler side by side --------------- *)
(* The scheduler's thread runs _run_check while the host serves the API
   handlers from other threads; requests.post blocks for up to 15 seconds,
   and a handler can run to its end in that time. *)

(* _refresh_for_account up to its requests.post, lines 497-509: the local rt
   is read from the dict and the exchange is sent *)
RefreshSend ==
  /\ pc = "refresh_acc" /\ ~inflight.open
  /\ Truthy(Acc.rest_refresh_token)                   \* if not rt: return False
  /\ inflight' = [open |-> TRUE, slot |-> Cur, rt |-> Acc.rest_refresh_token]
  /\ UNCHANGED << self, accounts, heap, saved, now, ticks, issued, budget, pc,
                  try_accounts, idx, headers, servers, sidx, throttled_list,
                  throttled_map, ok_counts, warns, rfret, notices, h, pre, result,
                  lastrf, lastif >>
  /\ UNCHANGED << flow, calls, lastcall, rich, world, prev, loaded >>

(* the answer arrives: lines 510-522 with the rt read before the post *)
RefreshReceive ==
  /\ pc = "refresh_acc" /\ inflight.open
  /\ RefreshAccount([Tokens(Acc) EXCEPT !.rt = inflight.rt])
  /\ inflight' = NoFlight
  /\ UNCHANGED << flow, calls, lastcall, rich, world, prev, loaded >>

(* revoke_device_token served while a run is in progress *)
RevokeDuringRun == pc /= "idle" /\ RevokeCall

(* one enabled REST account whose token is due for a refresh, or not yet;
   the provider answers every request with plain success *)
InitRace ==
  /\ self = SelfRest(TRUE, Authorized1)
  /\ accounts = << 1 >>
  /\ \E exp \in {T0 + 30, T0 + 100} :
       heap = [i \in Refs |->
                 IF i = 1 THEN Account(1, "A", TRUE, "rest",
                                       [at |-> 1, rt |-> 2, exp |-> exp], None)
                 ELSE Blank(i)]
  /\ saved = Snapshot(self, accounts, heap)
  /\ now = T0 /\ ticks = 0 /\ issued = 0
  /\ flow = NoFlow /\ calls = 0 /\ lastcall = NoCall
  /\ world = AnyWorld /\ inflight = NoFlight /\ prev = NoPrev /\ loaded = AfterLoad
  /\ Idle
  /\ budget = 0
  /\ rich = FALSE

NextRace ==
  \/ RunStart
  \/ MultiAccount
  \/ RefreshSend
  \/ RefreshReceive
  \/ RevokeDuringRun
  \/ MultiGetServers
  \/ MultiGetInterfaces
  \/ MultiSummary
  \/ RunEnd

SpecRace == InitRace /\ [][NextRace]_vars

SpecDetail == InitDetail /\ [][Next]_vars

(* ------------------------- a provider held fixed ------------------------ *)
(* what a provider can hold: some servers with an id each, and for each its
   interfaces, throttled or not; the token stored at first is stale or not *)
Worlds ==
  UNION { { [fixed |-> TRUE, stale |-> st,
             servers |-> [k \in 1 .. n |-> [id |-> k, vServerName |-> None,
                                            ips |-> << Addr(k) >>]],
             ifaces |-> f] :
              st \in BOOLEAN,
              f \in [1 .. n -> { << [trafficThrottled |-> "False", ipv4IP |-> << Addr(9) >>] >>,
                                 << [trafficThrottled |-> "True", ipv4IP |-> << Addr(9) >>] >> }] }
          : n \in 1 .. MaxServers }

(* no account or one, authorized REST or SOAP with credentials, checked
   against a provider whose data stay as they are *)
InitTwice ==
  \E n \in 0 .. SoloAccounts :
    /\ self \in { SelfRest(b, [at |-> 1, rt |-> 2, exp |-> T0 + 100]) : b \in BOOLEAN }
                 \cup { SelfSoap(b, 1) : b \in BOOLEAN }
    /\ accounts = [i \in 1 .. n |-> i]
    /\ \E mode \in {"rest", "soap"} :
         heap = [i \in Refs |->
                   IF i > n THEN Blank(i)
                   ELSE IF mode = "rest"
                     THEN Account(i, "A", TRUE, "rest", [at |-> 1, rt |-> 2, exp |-> T0 + 100], None)
                     ELSE Account(i, "A", TRUE, "soap", NoTokens, 1)]
    /\ saved = Snapshot(self, accounts, heap)
    /\ now = T0 /\ ticks = 0 /\ issued = 0
    /\ flow = NoFlow /\ calls = 0 /\ lastcall = NoCall
    /\ world \in Worlds /\ inflight = NoFlight /\ prev = NoPrev /\ loaded = AfterLoad
    /\ Idle
    /\ budget = MultiFaults
    /\ rich = FALSE

SpecTwice == InitTwice /\ [][Next]_vars

(* --------------------------- three accounts ---------------------------- *)
(* no account, or three enabled accounts with names of their own: "A" and
   "B" ready to be checked, and a third that is ready, unauthorized or
   without SOAP credentials *)
InitThree ==
  /\ self \in { SelfRest(TRUE, Authorized1), SelfSoap(TRUE, 1) }
  /\ \/ /\ accounts = << >>
        /\ heap = [i \in Refs |-> Blank(i)]
     \/ /\ accounts = [i \in 1 .. MaxAccounts |-> i]
        /\ \E second \in { Account(2, "B", TRUE, "rest", Authorized1, None),
                            Account(2, "B", TRUE, "soap", NoTokens, 1) },
              last \in { Account(MaxAccounts, "C", TRUE, "rest", Authorized1, None),
                          Account(MaxAccounts, "C", TRUE, "rest", NoTokens, None),
                          Account(MaxAccounts, "C", TRUE, "soap", NoTokens, None) } :
             heap = [i \in Refs |->
                       IF i = 1 THEN Account(1, "A", TRUE, "rest", Authorized1, None)
                       ELSE IF i = MaxAccounts THEN last
                       ELSE [second EXCEPT !.id = i]]
  /\ saved = Snapshot(self, accounts, heap)
  /\ now = T0 /\ ticks = 0 /\ issued = 0
  /\ flow = NoFlow /\ calls = 0 /\ lastcall = NoCall
  /\ world = AnyWorld /\ inflight = NoFlight /\ prev = NoPrev /\ loaded = AfterLoad
  /\ Idle
  /\ budget = MultiFaults
  /\ rich = FALSE

SpecThree == InitThree /\ [][Next]_vars

(* ============================== claims ================================= *)
IsNumber(v) == v /= None /\ v /= Malformed
(* the expiry a slot's readiness test read is a number within the margin *)
DueAtTest(s) ==
  pre[s].seen /\ IsNumber(pre[s].exp) /\ pre[s].now >= pre[s].exp - RefreshMargin
(* this step sends the first status request of the run with the slot's token *)
FirstStatus(s) == h[s].status = 0 /\ h'[s].status > 0

(* C1 as stated: for every account whose stored expiry is present and within
   60 seconds of now, a refresh exchange is issued before any status request
   is sent for it. *)
C1_Original ==
  [][ \A a \in Refs : (DueAtTest(a) /\ FirstStatus(a)) => h[a].refreshes >= 1 ]_vars

(* C1 amended: for every account (and the top-level slot) that has a refresh
   token and whose stored expiry is a non-zero number within 60 seconds of
   now, a refresh exchange is issued before any status request is sent. *)
C1_RefreshBeforeStatus ==
  [][ \A s \in Slots :
        (DueAtTest(s) /\ pre[s].exp /= 0 /\ Truthy(pre[s].rt) /\ FirstStatus(s))
          => h[s].refreshes >= 1 ]_vars

C1_Witness ==
  \E a \in Refs : /\ DueAtTest(a) /\ Truthy(pre[a].rt) /\ Truthy(pre[a].at)
                  /\ h[a].refreshes >= 1 /\ h[a].status >= 1

(* C2: a slot that has a refresh token but no access token gets a refresh
   exchange before its first status request, whatever its expiry; and a slot
   that has no access token after that refresh gets no status request. *)
C2_LazyRefresh ==
  [][ \A s \in Slots :
        (pre[s].seen /\ ~Truthy(pre[s].at) /\ Truthy(pre[s].rt) /\ FirstStatus(s))
          => (h[s].refreshes >= 1 /\ Truthy(SlotTokens(s).at)) ]_vars

C2_Witness ==
  \E s \in Slots : /\ pre[s].seen /\ ~Truthy(pre[s].at) /\ Truthy(pre[s].rt)
                   /\ pre[s].exp = None /\ h[s].refreshes = 1 /\ h[s].status >= 1

(* C3 as stated: whenever a refresh reports failure, the slot's access token,
   refresh token and expiry are what they were before the refresh started. *)
C3_NoPartialOverwrite ==
  (lastrf.n > 0 /\ ~lastrf.ok) => SlotTokens(lastrf.slot) = lastrf.before

(* C4 as stated: in one check of one account, 401 answers cause at most one
   refresh exchange and at most one retried request in total. *)
C4_Original ==
  \A s \in Slots : h[s].r401 <= 1 /\ h[s].retries <= 1

RetryPcs   == {"m_servers_retry", "m_iface_retry", "s_retry"}
RefreshPcs == {"refresh_acc", "refresh_glob"}

(* C4 amended: each request that is answered 401 causes at most one refresh
   exchange and is retried at most once, and a retried request is never
   followed by another refresh or retry of it; on the single-account path
   that is one refresh and one retry in the whole run. *)
C4_OneRetryPerRequest ==
  [][ /\ pc \in RetryPcs => pc' \notin (RetryPcs \cup RefreshPcs)
      /\ \A s \in Slots : /\ h'[s].retries <= h'[s].r401
                          /\ h'[s].r401 <= h'[s].status - h'[s].retries
      /\ h'[Global].r401 <= 1 /\ h'[Global].retries <= 1 ]_vars

C4_Witness ==
  \E a \in Refs : h[a].r401 = 2 /\ h[a].retries = 2 /\ result[a].state = "checked"

(* C5 as stated: when the interface fetch of one resource of an account
   fails, the throttle result of every other resource of the account is
   still computed and reported, for REST and for SOAP accounts. *)
C5_Isolation ==
  \A a \in Refs : result[a].lost = << >> /\ result[a].skipped = 0

(* C6 as stated: a failure while handling one account is recorded as a
   warning for it, and every later enabled account is still processed. *)
C6_EveryAccountProcessed ==
  (pc = "done" /\ try_accounts /= << >>)
    => \A i \in DOMAIN try_accounts : result[try_accounts[i]].state \in {"checked", "warned"}

(* C7: one execution of _run_check calls the notifier at most once. *)
C7_AtMostOneNotice == Len(notices) <= 1

C7_Witness ==
  /\ pc = "done" /\ Len(notices) = 1
  /\ \E a \in Refs : result[a].state = "raised"

(* C8 as stated: a run that ends with at least one error has sent a
   notification, also when notify_all_ok is off and nothing is throttled. *)
C8_NeverSilent ==
  (pc = "done" /\ warns /= << >>) => notices /= << >>

(* the aggregation ran to its end *)
Aggregated == pc = "done" /\ try_accounts /= << >> /\ idx > Len(try_accounts)

(* C9 as stated: at the end of a multi-account run an alert is sent iff at
   least one account has a non-empty throttled list; otherwise an all-clear
   is sent iff notify_all_ok is on; otherwise nothing is sent; the collected
   warnings are part of both notifications. *)
C9_Decision ==
  Aggregated =>
    LET some == \E a \in Refs : result[a].state = "checked" /\ result[a].lst /= << >>
    IN /\ some => (Len(notices) = 1 /\ notices[1].title = "alert_multi")
       /\ (~some /\ self.notify_all_ok) => (Len(notices) = 1 /\ notices[1].title = "ok_multi")
       /\ (~some /\ ~self.notify_all_ok) => notices = << >>
       /\ notices /= << >> => notices[1].warns = warns

(* C10: when the dependencies cannot be imported the run sends one error
   notification and ends at once: no account is processed, no token is
   refreshed, no request is sent and nothing stored changes. *)
C10_DependencyFailure ==
  [][ (pc = "idle" /\ notices' /= << >>)
        => /\ pc' = "done"
           /\ Len(notices') = 1 /\ notices'[1].title = "dep_error"
           /\ UNCHANGED << self, accounts, heap, saved, issued, h, pre, result, lastrf >> ]_vars

C10_Witness ==
  pc = "done" /\ Len(notices) = 1 /\ notices[1].title = "dep_error"

(* the run got past the dependency imports and has returned *)
RanToEnd == pc = "done" /\ ~(notices /= << >> /\ notices[1].title = "dep_error")

(* C11 as stated: a run checks exactly the enabled accounts, each of them;
   a disabled account is never refreshed or queried; and the top-level
   credentials are used when no account is enabled. *)
C11_ExactlyEnabled ==
  RanToEnd =>
    /\ \A i \in DOMAIN accounts :
         LET r == accounts[i]
         IN IF heap[r].enabled
              THEN result[r].state \in {"checked", "warned"}
              ELSE result[r].state = "none" /\ h[r] = NoCount /\ ~pre[r].seen
    /\ ((\A i \in DOMAIN accounts : ~heap[accounts[i]].enabled) /\ self.api_mode = "rest")
         => pre[Global].seen
(* this step is a call of poll_device_token / a call of a refresh function *)
PollStep    == calls' = calls + 1 /\ lastcall'.op = "poll"
RefreshStep == lastrf'.n = lastrf.n + 1
(* the tokens of a slot after the step, and the persisted ones *)
SlotTokensNext(s) == IF s = Global THEN Tokens(self') ELSE Tokens(heap'[s])
SavedTokens(s) ==
  IF s = Global THEN Tokens(saved.self)
  ELSE Tokens(saved.accounts[CHOOSE i \in DOMAIN accounts : accounts[i] = s])

(* C12 as stated: after revoke_device_token returns, the targeted slot (the
   named account, or the global slot when no id is given) has its three
   token fields cleared in memory and in the persisted configuration,
   whatever the outcome of the revocation call. *)
C12_RevokeClears ==
  (lastcall.op = "revoke" /\ (lastcall.target = None \/ Matching(lastcall.target) /= {}))
    => /\ SlotTokens(TargetSlot(lastcall.target)) = NoTokens
       /\ SavedTokens(TargetSlot(lastcall.target)) = NoTokens

(* C13: a call of poll_device_token makes one exchange; when the answer is
   non-200 it returns code 202 and leaves every token field, global and per
   account, and the persisted configuration unchanged. *)
C13_PollPendingFrame ==
  [][ (PollStep /\ lastcall'.answer \in {"authorization_pending", "access_denied",
                                          "expired_token"})
        => /\ lastcall'.code = 202 /\ lastcall'.posts = 1
           /\ UNCHANGED << self, accounts, heap, saved >> ]_vars

C13_Witness ==
  /\ lastcall.op = "poll" /\ lastcall.answer = "authorization_pending"
  /\ lastcall.code = 202
  /\ Truthy(self.rest_access_token)
  /\ \E i \in DOMAIN accounts : Truthy(heap[accounts[i]].rest_access_token)

(* C14 as stated: once the clock has passed the expiry recorded at start a
   poll reports the flow expired, and a definitive negative answer of the
   provider is reported as a failure; neither is reported as still pending
   (code 202). *)
C14_Terminal ==
  lastcall.op = "poll"
    => /\ lastcall.clock > lastcall.deadline => lastcall.code /= 202
       /\ lastcall.answer = "access_denied" => lastcall.code /= 202

(* C15 as stated: the tokens of a successful poll are written only to the
   slot the request names: with an account id the global slot and every
   other account are unchanged, also when the id matches no account; with
   no id the accounts are unchanged. *)
C15_ExplicitTarget ==
  [][ PollStep
        => IF Truthy(lastcall'.target)
             THEN /\ self' = self
                  /\ \A r \in Refs : heap[r].id /= lastcall'.target => heap'[r] = heap[r]
             ELSE heap' = heap ]_vars

(* C16 as stated: after a successful refresh the stored access token is the
   returned one, the stored refresh token is the returned one or else the
   previous one, expires_at = now + expires_in with 300 when expires_in is
   absent; and the refresh token sent in the next exchange of the slot is
   the newest one the provider returned. *)
RotationKept ==
  (RefreshStep /\ lastrf.sent /\ lastrf'.sent /\ lastrf'.slot = lastrf.slot
     /\ lastrf.answer.granted /\ lastrf.answer.refresh_token /= None)
    => lastrf'.before.rt = lastrf.answer.refresh_token

C16_Original ==
  [][ /\ (RefreshStep /\ lastrf'.ok)
           => LET a == lastrf'.answer
                  t == SlotTokensNext(lastrf'.slot)
              IN /\ t.at = a.access_token
                 /\ t.rt = IF a.refresh_token /= None THEN a.refresh_token
                           ELSE lastrf'.before.rt
                 /\ t.exp = lastrf'.clock + (IF a.expires_in /= None THEN a.expires_in
                                             ELSE DefaultExpiresIn)
      /\ RotationKept ]_vars

(* C16 amended: the same, with 300 used when expires_in is absent or 0. *)
C16_RefreshStores ==
  [][ /\ (RefreshStep /\ lastrf'.ok)
           => LET a == lastrf'.answer
                  t == SlotTokensNext(lastrf'.slot)
              IN /\ t.at = a.access_token
                 /\ t.rt = IF a.refresh_token /= None THEN a.refresh_token
                           ELSE lastrf'.before.rt
                 /\ t.exp = lastrf'.clock + (IF a.expires_in \notin {None, 0}
                                               THEN a.expires_in ELSE DefaultExpiresIn)
      /\ RotationKept ]_vars

C16_Witness ==
  /\ lastrf.n = 2 /\ lastrf.sent /\ lastrf.ok
  /\ lastrf.before.rt = FreshRT(0)
  /\ lastrf.answer.refresh_token = None /\ lastrf.answer.expires_in = None
  /\ SlotTokens(lastrf.slot) = [at |-> FreshAT(1), rt |-> FreshRT(0),
                                 exp |-> lastrf.clock + DefaultExpiresIn]

(* C17 as stated: in no reachable state do the token fields in memory differ
   from the persisted ones. *)
C17_MemoryMatchesStore ==
  /\ Tokens(saved.self) = Tokens(self)
  /\ \A i \in DOMAIN accounts : Tokens(saved.accounts[i]) = Tokens(heap[accounts[i]])

(* C18: a resource is reported as throttled iff some entry of its interface
   list has trafficThrottled true, on the REST path and on the SOAP path. *)
C18_ThrottledIffFlagged ==
  [][ (lastif'.seen /\ lastif'.accepted)
        => IF lastif'.flagged
             THEN /\ Len(throttled_list') = Len(throttled_list) + 1
                  /\ SubSeq(throttled_list', 1, Len(throttled_list)) = throttled_list
             ELSE throttled_list' = throttled_list ]_vars

C18_Witness ==
  /\ lastif.seen /\ lastif.accepted /\ lastif.flagged /\ lastif.path = "soap"
  /\ Len(throttled_list) = 1 /\ sidx > 2

(* the address the claim names for a throttled REST resource *)
C19_FirstOfList(ipv4, ips) ==
  IF ipv4 /= << >> THEN ipv4[1] ELSE IF ips /= << >> THEN ips[1] ELSE Unknown
C19_FirstIPv4OfList(ipv4, ips) ==
  IF ipv4 /= << >> THEN ipv4[1]
  ELSE IF \E i \in DOMAIN ips : ~ips[i].v6
    THEN ips[CHOOSE i \in DOMAIN ips : ~ips[i].v6 /\ \A j \in 1 .. (i - 1) : ips[j].v6]
  ELSE IF ips /= << >> THEN ips[1] ELSE Unknown
ReportsRest == lastif'.seen /\ lastif'.accepted /\ lastif'.path = "rest" /\ lastif'.flagged

(* C19 as stated: the reported address of a throttled REST resource is the
   first address of the throttled interface, else the first address of the
   resource's own list, else the sentinel. *)
C19_Original ==
  [][ ReportsRest => throttled_list'[Len(throttled_list')].ip
                       = C19_FirstOfList(lastif'.ipv4, lastif'.ips) ]_vars

(* C19 amended: ... else the first IPv4 address of the resource's own list,
   else the first address of that list, else the sentinel. *)
C19_ReportedAddress ==
  [][ ReportsRest => throttled_list'[Len(throttled_list')].ip
                       = C19_FirstIPv4OfList(lastif'.ipv4, lastif'.ips) ]_vars

C19_Witness ==
  /\ lastif.seen /\ lastif.path = "rest" /\ lastif.flagged
  /\ lastif.ipv4 = << >> /\ lastif.ips = << V6(1), Addr(1) >>
  /\ throttled_list /= << >> /\ throttled_list[Len(throttled_list)].ip = Addr(1)

(* C20 as stated: an interface payload that is neither an array nor an
   object wrapping one fails the check of the account, as for the server
   list. *)
C20_MalformedRejected ==
  [][ (pc \in {"m_iface", "m_iface_retry"} /\ lastif'.seen /\ lastif'.accepted
         /\ ~lastif'.listed)
        => result'[Cur].state = "warned" ]_vars
(* this step calls self._notify and send_event fails *)
NotifyFails ==
  Len(notices') = Len(notices) + 1 /\ ~notices'[Len(notices')].delivered

(* C23: a failure of the notifier is never raised to the caller: _notify
   returns normally, the run ends normally, and the failure changes no stored
   token or account field (what changes in that step is what the refresh of
   the same step wrote). *)
C23_NotifierFailureContained ==
  [][ NotifyFails
        => /\ notices'[Len(notices')].outcome = "returned"
           /\ pc' = "done"
           /\ accounts' = accounts /\ heap' = heap
           /\ IF RefreshStep
                THEN /\ lastrf'.slot = Global
                     /\ self' = WithTokens(self, lastrf'.after)
                     /\ saved' \in {saved, Snapshot(self', accounts, heap)}
                ELSE self' = self /\ saved' = saved ]_vars

C23_Witness ==
  /\ pc = "done" /\ Len(notices) = 1
  /\ ~notices[1].delivered /\ notices[1].title = "alert_multi"
  /\ notices[1].outcome = "returned"

SinglePcs == {"single", "refresh_glob", "s_servers", "s_iface", "s_retry",
              "s_soap_list", "s_soap_info"}

(* C24 as stated: when at least one account is enabled, the run never sends
   a request with the top-level access token or SOAP credentials, never
   refreshes the top-level token, and never enters the single-account
   logic. *)
C24_OnlyAccountCredentials ==
  try_accounts /= << >>
    => /\ pc \notin SinglePcs
       /\ h[Global] = NoCount /\ ~pre[Global].seen

(* C26 as stated: every enabled account that was checked successfully and
   has a throttled resource appears with all of its throttled resources in
   the alert of the run, also when two enabled accounts have the same
   name. *)
C26_AllThrottledListed ==
  Aggregated =>
    \A i \in DOMAIN try_accounts :
      LET r == result[try_accounts[i]]
      IN (r.state = "checked" /\ r.lst /= << >>)
           => /\ Len(notices) = 1 /\ notices[1].title = "alert_multi"
              /\ \E g \in DOMAIN notices[1].groups :
                   /\ notices[1].groups[g].name = DisplayName(heap[try_accounts[i]])
                   /\ notices[1].groups[g].lst = r.lst

(* C29 as stated: on the single-account REST path a run whose request got
   401 and whose refresh then succeeded reports as a run without 401 does:
   with the all-clear enabled it never ends without a notification. *)
C29_RetryReportsTheSame ==
  (pc = "done" /\ h[Global].retries = 1 /\ self.notify_all_ok) => notices /= << >>

(* the accounts of the run that were checked, in the order of ok_counts *)
CheckedAccounts == SelectSeq(try_accounts, LAMBDA r : result[r].state = "checked")

(* C30 as stated: the number an all-clear states for an account never counts
   a resource whose throttle status was not determined in the run. *)
C30_CountsOnlyDetermined ==
  (pc = "done" /\ notices /= << >> /\ notices[1].title = "ok_multi")
    => \A k \in DOMAIN notices[1].counts :
         k <= Len(CheckedAccounts)
           => notices[1].counts[k].cnt <= h[CheckedAccounts[k]].determined

(* C27: after init_plugin returns for a non-empty config the run-once flag
   is false in memory and in the persisted configuration, and when the
   config had onlyonce set the check ran exactly once during the call. *)
C27_RunOnceCleared ==
  loaded.state = "returned"
    => /\ ~self.onlyonce /\ ~saved.self.onlyonce
       /\ loaded.runs = (IF loaded.asked THEN 1 ELSE 0)

(* init_plugin returned after its one immediate run, and a token has been
   refreshed (which persists the whole configuration) *)
C27_Witness ==
  /\ loaded.state = "returned" /\ loaded.asked /\ loaded.runs = 1
  /\ issued >= 1 /\ pc = "idle"
  /\ ~self.onlyonce /\ ~saved.self.onlyonce

(* C21 as stated: two runs in a row against a provider whose resource and
   interface data do not change yield the same throttled-resource list and
   the same notification content, whatever token refreshes happen in either
   run. *)
C21_SameReportTwice ==
  (pc = "done" /\ ~DepsFailed /\ prev.ran /\ prev.imports)
    => /\ Content(notices) = prev.notices
       /\ << throttled_map, throttled_list >> = prev.lists

(* the three accounts of the scenario: the first has a throttled resource,
   the second was checked and has none, the last failed *)
ScenarioC ==
  /\ Aggregated /\ Len(try_accounts) = 3
  /\ result[try_accounts[1]].state = "checked" /\ result[try_accounts[1]].lst /= << >>
  /\ result[try_accounts[2]].state = "checked" /\ result[try_accounts[2]].lst = << >>
  /\ result[try_accounts[3]].state = "warned"

(* C22 as stated: in that scenario the run sends one notification that
   contains the first account's throttled resources, a line for the second
   giving its count of resources with none throttled, and the warning for the
   failing account. *)
C22_ScenarioReport ==
  ScenarioC =>
    /\ Len(notices) = 1
    /\ \E g \in DOMAIN notices[1].groups :
         /\ notices[1].groups[g].name = DisplayName(heap[try_accounts[1]])
         /\ notices[1].groups[g].lst = result[try_accounts[1]].lst
    /\ \E k \in DOMAIN notices[1].counts :
         /\ notices[1].counts[k].name = DisplayName(heap[try_accounts[2]])
         /\ notices[1].counts[k].cnt = result[try_accounts[2]].total
    /\ \E w \in DOMAIN notices[1].warns :
         notices[1].warns[w].name = DisplayName(heap[try_accounts[3]])

(* C25 as stated: once revoke_device_token has returned success for a slot,
   its access and refresh tokens stay cleared in memory and in the persisted
   configuration while no later poll stores new ones, whatever a run does
   beside it: a refresh sent before the revoke writes nothing back. *)
C25_RevokedStaysCleared ==
  (lastcall.op = "revoke" /\ lastcall.code = 200)
    => LET s == TargetSlot(lastcall.target)
       IN /\ SlotTokens(s).at = None /\ SlotTokens(s).rt = None
          /\ SavedTokens(s).at = None /\ SavedTokens(s).rt = None

(* this step is a call of account_update *)
UpdateStep == calls' = calls + 1 /\ lastcall'.op = "update"
(* the field of an account dict that a key of the request names *)
Field(a, key) ==
  CASE key = "name" -> << a.name >>
    [] key = "enabled" -> << a.enabled >>
    [] key = "api_mode" -> << a.api_mode >>
    [] key = "customer" -> << a.customer >>
    [] key = "password" -> << a.password >>

(* C28: account_update changes only the fields the request names, of the
   account with the given id: never a token field, an id or another account;
   the resulting api_mode is 'rest' or 'soap'; and without a matching account
   it returns 404 with the account list and the persisted configuration
   unchanged. *)
C28_UpdateFrame ==
  [][ UpdateStep =>
        LET req == lastcall'.req
        IN /\ accounts' = accounts /\ self' = self
           /\ \A r \in Refs :
                /\ Tokens(heap'[r]) = Tokens(heap[r]) /\ heap'[r].id = heap[r].id
                /\ heap[r].id /= req.id => heap'[r] = heap[r]
                /\ \A key \in {"name", "enabled", "api_mode", "customer", "password"} :
                     key \notin req.has => Field(heap'[r], key) = Field(heap[r], key)
                /\ "api_mode" \in req.has => heap'[r].api_mode \in {"rest", "soap"}
           /\ (Truthy(req.id) /\ Matching(req.id) = {})
                => (lastcall'.code = 404 /\ heap' = heap /\ saved' = saved) ]_vars

C28_Witness ==
  /\ lastcall.op = "update" /\ lastcall.code = 200
  /\ lastcall.req.has = {"name", "enabled", "api_mode", "customer", "password"}
  /\ LET a == heap[TargetSlot(lastcall.req.id)]
     IN /\ a.api_mode = "soap" /\ a.name = "B" /\ ~a.enabled
        /\ Tokens(a) = Authorized1
====
